---- MODULE Spec2Model ----
(***************************************************************************)
(* Orchestration layer of the CosyVoice2 TTS API: the "ultimate" request   *)
(* handler of main.py (mode resolution, saved speakers, streaming or       *)
(* non-streaming delivery) and the dispatcher of tts_service.py            *)
(* (reference ingestion, engine call, post-processing, temp-file cleanup). *)
(*                                                                         *)
(* A client payload is submitted at most once with stream=false and at     *)
(* most once with stream=true, in either order, against one file system    *)
(* and one engine.                                                         *)
(*                                                                         *)
(* Further specifications cover the custom-speaker registry, the worker    *)
(* pool, the streaming transports, load_wav and the handlers that take a   *)
(* reference as an upload or a URL.                                        *)
(***************************************************************************)
EXTENDS Integers, Sequences, FiniteSets, TLC

VARIABLES req, env, fs, ntemp, nid, spk2info, ns, st, reg, pool, tr, lw, http

vars == <<req, env, fs, ntemp, nid, spk2info, ns, st, reg, pool, tr, lw, http>>

(***************************************************************************)
(* Bounds                                                                  *)
(***************************************************************************)
MaxTextLen == 2
\* Number of add_custom_speaker calls a run of the registry makes.
MaxAdds == 2
\* Number of synthesis requests that arrive at the worker pool.
NumRequests == 6
\* Number of messages a client sends on one WebSocket connection.
MaxMessages == 2

(***************************************************************************)
(* Values                                                                  *)
(***************************************************************************)
\* Python None for identifier-like strings (speaker ids, language codes).
None == "<None>"
\* A text is a sequence of character classes; Python None for a text.
NoText == <<"<None>">>
\* "C": a character in [一-鿿]; "L": a character in [a-zA-Z];
\* "O": any other character (digit, punctuation, kana, ...).
Chars == {"C", "L", "O"}

RECURSIVE TextsOfLen(_)
TextsOfLen(n) ==
    IF n = 0 THEN {<<>>}
    ELSE {Append(t, c) : t \in TextsOfLen(n - 1), c \in Chars}

Texts == UNION {TextsOfLen(n) : n \in 0..MaxTextLen}

\* Python truthiness of Optional[str].
Truthy(s) == s # None /\ s # ""
TruthyText(t) == t # NoText /\ t # <<>>

\* Paths: dir is the directory class ("tmp" = tempfile.gettempdir(), "cwd",
\* "outputs", "-" for no path), name the trailing file name or suffix, id the
\* unique part chosen by NamedTemporaryFile / uuid4 (0 when there is none).
NoPath == [dir |-> "-", name |-> "-", id |-> 0]
Path(d, n, i) == [dir |-> d, name |-> n, id |-> i]
BetterWav == Path("cwd", "test_audio_better.wav", 0)
ShortWav == Path("cwd", "test_audio_short.wav", 0)
UserWav == Path("cwd", "user.wav", 0)
UserTmpWav == Path("tmp", "user.wav", 0)
UserTmpFixture == Path("tmp", "test_audio_better.wav", 0)
MissingWav == Path("cwd", "missing.wav", 0)

\* File contents, by what the decoders make of them:
\*   "good"    decodes, non-empty, sample rate >= 16000
\*   "lowrate" decodes, non-empty, sample rate < 16000
\*   "empty"   decodes to zero samples
\*   "garbage" does not decode
FileData == {"good", "lowrate", "empty", "garbage"}

\* Audio inputs (Union[str, bytes, None]).
NoAudio == [kind |-> "none", data |-> "-", path |-> NoPath]
Bytes(d) == [kind |-> "bytes", data |-> d, path |-> NoPath]
EmptyBytes == Bytes("nobytes")
Url(d) == [kind |-> "url", data |-> d, path |-> NoPath]
EmptyStr == [kind |-> "emptystr", data |-> "-", path |-> NoPath]
LocalPath(p) == [kind |-> "path", data |-> "-", path |-> p]

\* Python truthiness of an audio input (None, "" and b"" are falsy).
AudioTruthy(a) ==
    /\ a.kind \notin {"none", "emptystr"}
    /\ ~(a.kind = "bytes" /\ a.data = "nobytes")

IsStr(a) == a.kind \in {"url", "path", "emptystr"}
IsBytes(a) == a.kind = "bytes"

(***************************************************************************)
(* main.py: mode resolution                                                *)
(***************************************************************************)
HasChar(t, c) == \E i \in 1..Len(t) : t[i] = c

\* Variant: only the "first CJK, second Latin" direction is recognised.
is_different_language_one_way(text1, text2) ==
    LET has_chinese_1 == HasChar(text1, "C")
        has_chinese_2 == HasChar(text2, "C")
        has_english_1 == HasChar(text1, "L")
        has_english_2 == HasChar(text2, "L")
    IN  (has_chinese_1 /\ ~has_english_1) /\ (has_english_2 /\ ~has_chinese_2)

\* Variant: a side counts as a script as soon as it contains it.
is_different_language_any_script(text1, text2) ==
    LET has_chinese_1 == HasChar(text1, "C")
        has_chinese_2 == HasChar(text2, "C")
        has_english_1 == HasChar(text1, "L")
        has_english_2 == HasChar(text2, "L")
    IN  \/ has_chinese_1 /\ has_english_2
        \/ has_english_1 /\ has_chinese_2

is_different_language(text1, text2) ==
    LET has_chinese_1 == HasChar(text1, "C")
        has_chinese_2 == HasChar(text2, "C")
        has_english_1 == HasChar(text1, "L")
        has_english_2 == HasChar(text2, "L")
    IN  \/ (has_chinese_1 /\ ~has_english_1) /\ (has_english_2 /\ ~has_chinese_2)
        \/ (has_english_1 /\ ~has_chinese_1) /\ (has_chinese_2 /\ ~has_english_2)

\* prompt_audio_input of _ultimate_tts_impl: the upload wins over the URL.
prompt_audio_input(r) ==
    IF r.upload.kind # "none" THEN r.upload
    ELSE IF AudioTruthy(r.prompt_audio_url) THEN r.prompt_audio_url
    ELSE NoAudio

\* Variant: the transcript rule is tried before the instruction rule.
auto_mode_transcript_first(r) ==
    IF r.mode = "auto" THEN
        IF TruthyText(r.prompt_text) /\ AudioTruthy(prompt_audio_input(r))
            THEN IF r.language # "zh" \/ is_different_language(r.text, r.prompt_text)
                 THEN "cross_lingual"
                 ELSE "zero_shot"
        ELSE IF TruthyText(r.instruct_text) /\ AudioTruthy(prompt_audio_input(r))
            THEN "instruct2"
        ELSE IF Truthy(r.speaker) THEN "sft"
        ELSE "basic"
    ELSE r.mode

\* Variant: the transcript rule does not ask for reference audio.
auto_mode_transcript_alone(r) ==
    IF r.mode = "auto" THEN
        IF TruthyText(r.instruct_text) /\ AudioTruthy(prompt_audio_input(r))
            THEN "instruct2"
        ELSE IF TruthyText(r.prompt_text)
            THEN IF r.language # "zh" \/ is_different_language(r.text, r.prompt_text)
                 THEN "cross_lingual"
                 ELSE "zero_shot"
        ELSE IF Truthy(r.speaker) THEN "sft"
        ELSE "basic"
    ELSE r.mode

\* auto_mode of _ultimate_tts_impl (a mode name, not yet an enum member).
auto_mode(r) ==
    IF r.mode = "auto" THEN
        IF TruthyText(r.instruct_text) /\ AudioTruthy(prompt_audio_input(r))
            THEN "instruct2"
        ELSE IF TruthyText(r.prompt_text) /\ AudioTruthy(prompt_audio_input(r))
            THEN IF r.language # "zh" \/ is_different_language(r.text, r.prompt_text)
                 THEN "cross_lingual"
                 ELSE "zero_shot"
        ELSE IF Truthy(r.speaker) THEN "sft"
        ELSE "basic"
    ELSE r.mode

\* Variant: a name outside the mapping falls back to zero-shot cloning.
mode_mapping_default_zero_shot(name) ==
    CASE name = "auto" -> "BASIC"
      [] name = "sft" -> "BASIC"
      [] name = "zero_shot" -> "ZERO_SHOT"
      [] name = "cross_lingual" -> "CROSS_LINGUAL"
      [] name = "instruct" -> "INSTRUCT"
      [] name = "instruct2" -> "INSTRUCT2"
      [] name = "voice_conversion" -> "VOICE_CONVERSION"
      [] OTHER -> "ZERO_SHOT"

mode_mapping(name) ==
    CASE name = "auto" -> "BASIC"
      [] name = "sft" -> "BASIC"
      [] name = "zero_shot" -> "ZERO_SHOT"
      [] name = "cross_lingual" -> "CROSS_LINGUAL"
      [] name = "instruct" -> "INSTRUCT"
      [] name = "instruct2" -> "INSTRUCT2"
      [] name = "voice_conversion" -> "VOICE_CONVERSION"
      [] OTHER -> "BASIC"

synthesis_mode(r) == mode_mapping(auto_mode(r))

(***************************************************************************)
(* tts_service.py: files, ingestion, engine                                *)
(*                                                                         *)
(* The operators below thread a world record                               *)
(*   w = [fs, ntemp, nid, calls, made, removed, spk2info]                  *)
(* through the code: fs maps each existing path to its content, ntemp and  *)
(* nid number the temporary files and request ids handed out so far, calls *)
(* is the log of engine operations invoked by the current call, made the   *)
(* set of temporary files the current call created and removed the log of  *)
(* the paths it called os.unlink on.  Each returns Ret(raised, val, w):    *)
(* whether it raised, its value, the world after it.                       *)
(***************************************************************************)
Ret(raised, val, w) == [raised |-> raised, val |-> val, w |-> w]

Exists(w, p) == p \in DOMAIN w.fs

WriteFile(f, p, d) == [q \in (DOMAIN f) \cup {p} |-> IF q = p THEN d ELSE f[q]]

\* os.unlink inside try/except-pass: a missing file is not an error.
Unlink(f, p) == [q \in (DOMAIN f) \ {p} |-> f[q]]

\* tempfile.NamedTemporaryFile(suffix=..., delete=False) then a write.
NamedTemporaryFile(w, d) ==
    LET p == Path("tmp", "tmp.wav", w.ntemp + 1)
    IN  Ret(FALSE, p, [w EXCEPT !.fs = WriteFile(@, p, d),
                                !.ntemp = @ + 1,
                                !.made = @ \cup {p}])

\* What a byte string or a download is once written to a file.
Stored(d) == IF d = "nobytes" THEN "garbage" ELSE d

download_audio(a, w) ==
    IF a.data = "http_error" THEN Ret(TRUE, NoPath, w)
    ELSE NamedTemporaryFile(w, Stored(a.data))

save_audio_bytes(a, w) == NamedTemporaryFile(w, Stored(a.data))

process_audio_input(a, w) ==
    IF IsStr(a) THEN
        IF a.kind = "url" THEN download_audio(a, w)
        ELSE IF a.kind = "path" /\ Exists(w, a.path) THEN Ret(FALSE, a.path, w)
        ELSE Ret(TRUE, NoPath, w)
    ELSE IF IsBytes(a) THEN save_audio_bytes(a, w)
    ELSE Ret(TRUE, NoPath, w)

validate_audio_file(w, p) == Exists(w, p) /\ w.fs[p] \in {"good", "lowrate"}

\* load_wav + postprocess: raises unless the file decodes, is non-empty and
\* is sampled at 16000 Hz or above.  The value is the path whose waveform
\* was loaded.
load_audio_data(w, p) ==
    IF Exists(w, p) /\ w.fs[p] = "good" THEN Ret(FALSE, p, w)
    ELSE Ret(TRUE, NoPath, w)

\* Variant: only the first fixture name is probed.
default_audio_first_fixture_only(w) ==
    IF Exists(w, BetterWav) THEN Ret(FALSE, BetterWav, w)
    ELSE NamedTemporaryFile(w, "good")

\* The fixture probe shared by _basic_synthesis, _get_prompt_audio and the
\* BASIC branch of synthesize_stream: first existing fixture, else a one
\* second silent file written to a fresh temporary file.
default_audio(w) ==
    IF Exists(w, BetterWav) THEN Ret(FALSE, BetterWav, w)
    ELSE IF Exists(w, ShortWav) THEN Ret(FALSE, ShortWav, w)
    ELSE NamedTemporaryFile(w, "good")

get_prompt_audio(a, w) ==
    IF a.kind = "none" THEN
        LET d == default_audio(w) IN load_audio_data(d.w, d.val)
    ELSE IF IsStr(a) THEN
        \* the string itself is handed to the decoder: a URL is not a file
        IF a.kind = "path" THEN load_audio_data(w, a.path)
        ELSE Ret(TRUE, NoPath, w)
    ELSE IF IsBytes(a) THEN
        LET t == NamedTemporaryFile(w, Stored(a.data)) IN load_audio_data(t.w, t.val)
    ELSE Ret(TRUE, NoPath, w)

\* A tensor is its number of samples; NoTensor is Python None.
NoTensor == -1

OrEmpty(s) == IF Truthy(s) THEN s ELSE ""

\* One blocking engine operation.  "for out in op(...): return out" takes
\* the first output, or None when the engine yields nothing.
Engine(op, spk, ref, w) ==
    LET w1 == [w EXCEPT !.calls = Append(@, [op |-> op, spk |-> spk, ref |-> ref])]
    IN  IF env.engine = "raise" THEN Ret(TRUE, NoTensor, w1)
        ELSE IF env.engine = "nothing" THEN Ret(FALSE, NoTensor, w1)
        ELSE Ret(FALSE, env.len, w1)

(***************************************************************************)
(* tts_service.py: post-processing and the non-streaming dispatcher        *)
(***************************************************************************)
DefaultSampleRate == 22050
ChunkSize == 8192
Protected == {"test_audio_better.wav", "test_audio_short.wav"}

\* A file name that ends in a fixture name without being one.
SuffixName == "my_test_audio_better.wav"

\* str.endswith over the file names that occur here.
EndsWith(name, suffix) ==
    \/ name = suffix
    \/ name = SuffixName /\ suffix = "test_audio_better.wav"

\* path.endswith(('test_audio_better.wav', 'test_audio_short.wav'))
EndsWithProtected(p) == \E suffix \in Protected : EndsWith(p.name, suffix)

\* Request ids: uuid4 values handed out by the engine, and the
\* "ultimate_<mode>_<time>" string of the ultimate endpoints.
Uuid(n) == [kind |-> "uuid", mode |-> "-", n |-> n]
UltimateId(m) == [kind |-> "ultimate", mode |-> m, n |-> 0]
NoId == [kind |-> "none", mode |-> "-", n |-> 0]

\* Byte size of n float samples in each container.  WAV is a fixed header
\* plus four bytes a sample; the compressed containers are represented by
\* their own overhead and payload rates.
EncodedSize(format, n) ==
    CASE format = "wav" -> 58 + 4 * n
      [] format = "flac" -> 42 + 2 * n
      [] format = "mp3" -> 45 + n

\* Durations are kept exact: samples over sample rate.
NoDuration == [num |-> 0, den |-> 1]

TTSResult(success, audio_file, duration, file_size, sample_rate, error_message, request_id, mode_used) ==
    [success |-> success, audio_file |-> audio_file, duration |-> duration,
     file_size |-> file_size, sample_rate |-> sample_rate,
     error_message |-> error_message, request_id |-> request_id,
     mode_used |-> mode_used]

Failure(msg, rid) == TTSResult(FALSE, NoPath, NoDuration, -1, -1, msg, rid, "-")

NoResult == TTSResult(FALSE, NoPath, NoDuration, -1, -1, "", NoId, "-")

\* int(samples / speed), speed in tenths.
SpeedLength(n, speed) ==
    LET new_length == (n * 10) \div speed
    IN  IF speed # 10 /\ new_length > 0 THEN new_length ELSE n

\* torchaudio.transforms.Resample: ceil(n * new_freq / orig_freq) samples.
ResampleLength(n, orig_freq, new_freq) ==
    (n * new_freq + orig_freq - 1) \div orig_freq

\* Variant: the result is built without the encoded file having been saved.
process_audio_result_unsaved(audio_tensor, request, request_id, mode, w) ==
    IF audio_tensor = NoTensor
    THEN Ret(FALSE, Failure("audio processing failed", request_id), w)
    ELSE
        LET n1 == IF env.speed_ok THEN SpeedLength(audio_tensor, request.speed)
                  ELSE audio_tensor
            native == env.sample_rate
            target == request.sample_rate
            resampled == native # target /\ env.resample_ok
            n2 == IF resampled THEN ResampleLength(n1, native, target) ELSE n1
            sample_rate == IF resampled THEN target ELSE native
            output_file == Path("outputs", request.format, request_id.n)
        IN  Ret(FALSE,
                TTSResult(TRUE, output_file, [num |-> n2, den |-> sample_rate],
                          EncodedSize(request.format, n2), sample_rate, "",
                          request_id, mode),
                w)

\* Variant: the target rate is recorded before the resampler has run.
process_audio_result_rate_before_resample(audio_tensor, request, request_id, mode, w) ==
    IF audio_tensor = NoTensor
    THEN Ret(FALSE, Failure("audio processing failed", request_id), w)
    ELSE
        LET n1 == IF env.speed_ok THEN SpeedLength(audio_tensor, request.speed)
                  ELSE audio_tensor
            native == env.sample_rate
            target == request.sample_rate
            resampled == native # target /\ env.resample_ok
            n2 == IF resampled THEN ResampleLength(n1, native, target) ELSE n1
            sample_rate == IF native # target THEN target ELSE native
            output_file == Path("outputs", request.format, request_id.n)
        IN  Ret(FALSE,
                TTSResult(TRUE, output_file, [num |-> n2, den |-> sample_rate],
                          EncodedSize(request.format, n2), sample_rate, "",
                          request_id, mode),
                [w EXCEPT !.fs = WriteFile(@, output_file, "good")])

\* _process_audio_result never raises: any failure becomes a failure result.
process_audio_result(audio_tensor, request, request_id, mode, w) ==
    IF audio_tensor = NoTensor
    THEN Ret(FALSE, Failure("audio processing failed", request_id), w)
    ELSE
        LET n1 == IF env.speed_ok THEN SpeedLength(audio_tensor, request.speed)
                  ELSE audio_tensor
            native == env.sample_rate
            target == request.sample_rate
            resampled == native # target /\ env.resample_ok
            n2 == IF resampled THEN ResampleLength(n1, native, target) ELSE n1
            sample_rate == IF resampled THEN target ELSE native
            output_file == Path("outputs", request.format, request_id.n)
            w1 == [w EXCEPT !.fs = WriteFile(@, output_file, "good")]
        IN  Ret(FALSE,
                TTSResult(TRUE, output_file, [num |-> n2, den |-> sample_rate],
                          EncodedSize(request.format, n2), sample_rate, "",
                          request_id, mode),
                w1)

basic_synthesis(request, request_id, w) ==
    LET d == default_audio(w)
        l == load_audio_data(d.w, d.val)
    IN  IF l.raised THEN l
        ELSE LET e == Engine("inference_zero_shot", OrEmpty(request.speaker), l.val, l.w)
             IN  IF e.raised THEN e
                 ELSE process_audio_result(e.val, request, request_id, "BASIC", e.w)

zero_shot_synthesis(request, request_id, prompt_audio_path, w) ==
    LET l == load_audio_data(w, prompt_audio_path)
    IN  IF l.raised THEN l
        ELSE LET e == Engine("inference_zero_shot", OrEmpty(request.speaker), l.val, l.w)
             IN  IF e.raised THEN e
                 ELSE process_audio_result(e.val, request, request_id, "ZERO_SHOT", e.w)

cross_lingual_synthesis(request, request_id, prompt_audio_path, w) ==
    LET l == load_audio_data(w, prompt_audio_path)
    IN  IF l.raised THEN l
        ELSE LET e == Engine("inference_cross_lingual", OrEmpty(request.speaker), l.val, l.w)
             IN  IF e.raised THEN e
                 ELSE process_audio_result(e.val, request, request_id, "CROSS_LINGUAL", e.w)

\* The cleanup of _instruct_synthesis and synthesize_stream: only files
\* under the temporary directory that do not carry a fixture name.
cleanup_protected(w, p) ==
    IF p # NoPath /\ p.dir = "tmp" /\ ~EndsWithProtected(p)
    THEN [w EXCEPT !.fs = Unlink(@, p), !.removed = Append(@, p)]
    ELSE w

\* The cleanup of synthesize: any file under the temporary directory.
cleanup_temp(w, p) ==
    IF p # NoPath /\ p.dir = "tmp"
    THEN [w EXCEPT !.fs = Unlink(@, p), !.removed = Append(@, p)]
    ELSE w

instruct_synthesis(request, request_id, w) ==
    IF ~AudioTruthy(request.prompt_audio) THEN Ret(TRUE, NoResult, w)
    ELSE
        LET i == process_audio_input(request.prompt_audio, w)
        IN  IF i.raised THEN Ret(TRUE, NoResult, i.w)
            ELSE
                LET l == load_audio_data(i.w, i.val)
                    e == Engine("inference_instruct2", OrEmpty(request.speaker), l.val, l.w)
                    r == IF l.raised THEN l
                         ELSE IF e.raised THEN e
                         ELSE process_audio_result(e.val, request, request_id, "INSTRUCT", e.w)
                IN  \* finally
                    Ret(r.raised, r.val, cleanup_protected(r.w, i.val))

\* _run_synthesis: whatever the synthesis function raises becomes a failure
\* result.
run_synthesis(r, request, request_id) ==
    IF r.raised THEN Ret(FALSE, Failure("synthesis failed", request_id), r.w)
    ELSE process_audio_result(r.val, request, request_id, request.mode, r.w)

\* An engine operation that is given speed=request.speed: with stream=False
\* the engine itself shortens what it generates to int(length / speed).
EngineAtSpeed(op, spk, ref, speed, w) ==
    LET e == Engine(op, spk, ref, w)
    IN  IF e.raised \/ e.val = NoTensor THEN e
        ELSE Ret(FALSE, SpeedLength(e.val, speed), e.w)

instruct2_synthesis(request, request_id, w) ==
    LET g == get_prompt_audio(request.prompt_audio, w)
        e == IF g.raised THEN g
             ELSE EngineAtSpeed("inference_instruct2", request.zero_shot_spk_id, g.val,
                                request.speed, g.w)
    IN  run_synthesis(e, request, request_id)

voice_conversion(request, request_id, w) ==
    LET source_audio == get_prompt_audio(request.prompt_audio, w)
        target_audio == get_prompt_audio(request.prompt_audio, source_audio.w)
        e == IF source_audio.raised THEN source_audio
             ELSE IF target_audio.raised THEN target_audio
             ELSE EngineAtSpeed("inference_vc", None, target_audio.val, request.speed,
                                target_audio.w)
    IN  run_synthesis(e, request, request_id)

Modes == {"BASIC", "ZERO_SHOT", "CROSS_LINGUAL", "INSTRUCT", "INSTRUCT2",
          "VOICE_CONVERSION"}

dispatch(request, request_id, prompt_audio_path, w) ==
    CASE request.mode = "BASIC" -> basic_synthesis(request, request_id, w)
      [] request.mode = "ZERO_SHOT" ->
            zero_shot_synthesis(request, request_id, prompt_audio_path, w)
      [] request.mode = "CROSS_LINGUAL" ->
            cross_lingual_synthesis(request, request_id, prompt_audio_path, w)
      [] request.mode = "INSTRUCT" -> instruct_synthesis(request, request_id, w)
      [] request.mode = "INSTRUCT2" -> instruct2_synthesis(request, request_id, w)
      [] request.mode = "VOICE_CONVERSION" -> voice_conversion(request, request_id, w)

\* CosyVoice2Engine.synthesize.  val is [result, ingested]: the TTSResult and
\* the path process_audio_input returned (NoPath when it was not called or
\* raised).
synthesize(request, w0) ==
    LET request_id == Uuid(w0.nid + 1)
        w == [w0 EXCEPT !.nid = @ + 1]
        Out(res, p, wo) == Ret(FALSE, [result |-> res, ingested |-> p], wo)
    IN  IF ~env.is_initialized
        THEN Out(Failure("engine not initialised", request_id), NoPath, w)
        ELSE
            LET i == IF AudioTruthy(request.prompt_audio)
                     THEN process_audio_input(request.prompt_audio, w)
                     ELSE Ret(FALSE, NoPath, w)
            IN  IF i.raised
                THEN Out(Failure("synthesis failed", request_id), NoPath, i.w)
                ELSE IF AudioTruthy(request.prompt_audio)
                        /\ ~validate_audio_file(i.w, i.val)
                THEN Out(Failure("invalid reference audio", request_id), i.val, i.w)
                ELSE
                    LET d == dispatch(request, request_id, i.val, i.w)
                    IN  IF d.raised
                        THEN Out(Failure("synthesis failed", request_id), i.val, d.w)
                        ELSE Out(d.val, i.val, cleanup_temp(d.w, i.val))

(***************************************************************************)
(* tts_service.py: the streaming dispatcher                                *)
(***************************************************************************)
\* The fixture fallback of the ZERO_SHOT, CROSS_LINGUAL and INSTRUCT
\* branches of _stream_synthesize: raises when neither fixture exists.
stream_prompt_path(prompt_audio_path, w) ==
    IF prompt_audio_path # NoPath THEN Ret(FALSE, prompt_audio_path, w)
    ELSE IF Exists(w, BetterWav) THEN Ret(FALSE, BetterWav, w)
    ELSE IF Exists(w, ShortWav) THEN Ret(FALSE, ShortWav, w)
    ELSE Ret(TRUE, NoPath, w)

\* next(iter(generator)) on the engine's generator: an engine that yields
\* nothing raises StopIteration inside the async generator.
FirstOutput(e) == IF e.raised \/ e.val = NoTensor THEN Ret(TRUE, NoTensor, e.w) ELSE e

\* _stream_synthesize followed by taking the first output.  A mode without a
\* branch returns None, and subscripting None raises.
stream_synthesize(request, prompt_audio_path, w) ==
    CASE request.mode = "BASIC" ->
            LET d == default_audio(w)
                l == load_audio_data(d.w, d.val)
            IN  IF l.raised THEN Ret(TRUE, NoTensor, l.w)
                ELSE FirstOutput(Engine("inference_zero_shot", OrEmpty(request.speaker), l.val, l.w))
      [] request.mode \in {"ZERO_SHOT", "CROSS_LINGUAL", "INSTRUCT"} ->
            LET f == stream_prompt_path(prompt_audio_path, w)
                l == load_audio_data(f.w, f.val)
                op == CASE request.mode = "ZERO_SHOT" -> "inference_zero_shot"
                        [] request.mode = "CROSS_LINGUAL" -> "inference_cross_lingual"
                        [] request.mode = "INSTRUCT" -> "inference_instruct2"
            IN  IF f.raised \/ l.raised THEN Ret(TRUE, NoTensor, w)
                ELSE FirstOutput(Engine(op, OrEmpty(request.speaker), l.val, l.w))
      [] OTHER -> Ret(TRUE, NoTensor, w)

\* The chunk sizes range(0, len, chunk_size) cuts a buffer of n bytes into.
RECURSIVE Chunks(_)
Chunks(n) ==
    IF n <= 0 THEN <<>>
    ELSE IF n <= ChunkSize THEN <<n>>
    ELSE <<ChunkSize>> \o Chunks(n - ChunkSize)

\* Variant: the reference is ingested before the initialisation check.
stream_open_ingest_first(request, w) ==
    LET Out(raised, n, p, wo) == Ret(raised, [buffer |-> n, cleanup_path |-> p], wo)
        i == IF AudioTruthy(request.prompt_audio)
             THEN process_audio_input(request.prompt_audio, w)
             ELSE Ret(FALSE, NoPath, w)
    IN  IF i.raised THEN Out(TRUE, 0, NoPath, i.w)
        ELSE IF ~env.is_initialized THEN Out(TRUE, 0, i.val, i.w)
        ELSE
            LET o == stream_synthesize(request, i.val, i.w)
            IN  IF o.raised
                THEN Out(TRUE, 0, i.val, cleanup_protected(o.w, i.val))
                ELSE Out(FALSE, EncodedSize("wav", o.val), i.val, o.w)

\* synthesize_stream from its first resumption up to its first yield or its
\* end.  val is [buffer, cleanup_path]: the encoded byte count (0 when the
\* body raised) and the path the finally block is responsible for.
stream_open(request, w) ==
    LET Out(raised, n, p, wo) == Ret(raised, [buffer |-> n, cleanup_path |-> p], wo)
    IN  IF ~env.is_initialized THEN Out(TRUE, 0, NoPath, w)
        ELSE
            LET i == IF AudioTruthy(request.prompt_audio)
                     THEN process_audio_input(request.prompt_audio, w)
                     ELSE Ret(FALSE, NoPath, w)
            IN  IF i.raised THEN Out(TRUE, 0, NoPath, i.w)
                ELSE
                    LET o == stream_synthesize(request, i.val, i.w)
                    IN  IF o.raised
                        THEN Out(TRUE, 0, i.val, cleanup_protected(o.w, i.val))
                        ELSE Out(FALSE, EncodedSize("wav", o.val), i.val, o.w)

(***************************************************************************)
(* main.py: the ultimate endpoints                                         *)
(***************************************************************************)
\* TTSRequest.__init__ (the fields the orchestration reads).
TTSRequest(text, mode, speaker, language, speed, format, sample_rate, prompt_text, prompt_audio, instruct_text, stream) ==
    [text |-> text, mode |-> mode, speaker |-> speaker, language |-> language,
     speed |-> speed, format |-> format,
     sample_rate |-> IF sample_rate = 0 THEN DefaultSampleRate ELSE sample_rate,
     prompt_text |-> prompt_text, prompt_audio |-> prompt_audio,
     instruct_text |-> instruct_text, stream |-> stream,
     zero_shot_spk_id |-> ""]

\* CosyVoice2Engine.add_zero_shot_speaker: every exception becomes False.
add_zero_shot_speaker(speaker_id, prompt_audio, w) ==
    LET g == get_prompt_audio(prompt_audio, w)
    IN  IF g.raised \/ ~env.is_initialized THEN Ret(FALSE, FALSE, g.w)
        ELSE Ret(FALSE, TRUE, [g.w EXCEPT !.spk2info = @ \cup {speaker_id}])

\* Variant: switching to the saved speaker leaves the reference audio in.
build_request_keeps_reference(r, stream, w) ==
    LET input == prompt_audio_input(r)
        t0 == TTSRequest(r.text, synthesis_mode(r), r.speaker, r.language,
                         r.speed, r.format, r.sample_rate, r.prompt_text,
                         input, r.instruct_text, stream)
        w1 == IF Truthy(r.save_speaker_id) /\ AudioTruthy(input) /\ TruthyText(r.prompt_text)
              THEN add_zero_shot_speaker(r.save_speaker_id, input, w).w
              ELSE w
        t1 == IF Truthy(r.use_saved_speaker)
              THEN [t0 EXCEPT !.zero_shot_spk_id = r.use_saved_speaker,
                              !.prompt_text = <<>>]
              ELSE t0
    IN  Ret(FALSE, t1, w1)

\* The part of _ultimate_tts_impl that both delivery paths share: build the
\* TTSRequest, save the speaker if asked, then switch to the saved speaker.
build_request(r, stream, w) ==
    LET input == prompt_audio_input(r)
        t0 == TTSRequest(r.text, synthesis_mode(r), r.speaker, r.language,
                         r.speed, r.format, r.sample_rate, r.prompt_text,
                         input, r.instruct_text, stream)
        w1 == IF Truthy(r.save_speaker_id) /\ AudioTruthy(input) /\ TruthyText(r.prompt_text)
              THEN add_zero_shot_speaker(r.save_speaker_id, input, w).w
              ELSE w
        t1 == IF Truthy(r.use_saved_speaker)
              THEN [t0 EXCEPT !.zero_shot_spk_id = r.use_saved_speaker,
                              !.prompt_text = <<>>,
                              !.prompt_audio = NoAudio]
              ELSE t0
    IN  Ret(FALSE, t1, w1)

TTSResponse(success, audio_url, duration, file_size, sample_rate, request_id, error_message) ==
    [success |-> success, audio_url |-> audio_url, duration |-> duration,
     file_size |-> file_size, sample_rate |-> sample_rate,
     request_id |-> request_id, error_message |-> error_message]

NoResponse == TTSResponse(FALSE, NoPath, NoDuration, -1, -1, NoId, "")

convert_result_to_response(result) ==
    IF result.success /\ result.audio_file # NoPath
    THEN TTSResponse(TRUE, result.audio_file, result.duration, result.file_size,
                     result.sample_rate, result.request_id, "")
    ELSE TTSResponse(FALSE, NoPath, NoDuration, -1, -1, result.request_id,
                     result.error_message)

(***************************************************************************)
(* Inputs                                                                  *)
(***************************************************************************)
\* An ultimate request with every optional field left out.  speed is in
\* tenths; sample_rate 0 is "not given".
DefaultReq ==
    [text |-> <<"C">>, mode |-> "auto", language |-> "zh", speed |-> 10,
     speaker |-> None, prompt_text |-> NoText, prompt_audio_url |-> NoAudio,
     upload |-> NoAudio, instruct_text |-> NoText, format |-> "wav",
     sample_rate |-> 0, save_speaker_id |-> None, use_saved_speaker |-> None]

\* The engine: whether it was initialised, what an inference call does
\* ("audio": yields len samples, "nothing": yields no output, "raise"), and
\* its native sample rate; and whether scipy.signal.resample and the
\* torchaudio resampler do their work or raise.
DefaultEnv ==
    [is_initialized |-> TRUE, engine |-> "audio", len |-> 1, sample_rate |-> 24000,
     speed_ok |-> TRUE, resample_ok |-> TRUE]

ModeNames == {"auto", "sft", "zero_shot", "cross_lingual", "instruct",
              "instruct2", "voice_conversion", "bogus"}

\* The caller's own files always exist; each fixture may or may not.
UserFiles == {UserWav, UserTmpWav, UserTmpFixture}
FixtureSets == SUBSET {BetterWav, ShortWav}
Disk(fixtures) == [p \in UserFiles \cup fixtures |-> "good"]

Scenario(r, e, fixtures) == [req |-> r, env |-> e, fs |-> Disk(fixtures)]

\* Mode resolution: every text against every transcript.
ResolveInputs ==
    {Scenario([DefaultReq EXCEPT !.text = t, !.prompt_text = pt, !.language = l,
                                 !.instruct_text = it, !.upload = u, !.speaker = sp],
              DefaultEnv, {BetterWav}) :
        t \in Texts, pt \in {NoText} \cup Texts, l \in {"zh", "en"},
        it \in {NoText, <<"L">>}, u \in {NoAudio, Bytes("good")},
        sp \in {None, "spk1"}}

\* Every mode name against present, absent and empty optional fields.
FieldInputs ==
    {Scenario([DefaultReq EXCEPT !.mode = m, !.prompt_text = pt, !.instruct_text = it,
                                 !.upload = u, !.prompt_audio_url = url,
                                 !.speaker = sp, !.use_saved_speaker = us],
              DefaultEnv, {BetterWav}) :
        m \in ModeNames, pt \in {NoText, <<>>, <<"C">>}, it \in {NoText, <<>>, <<"L">>},
        u \in {NoAudio, EmptyBytes, Bytes("good")},
        url \in {NoAudio, EmptyStr, Url("good")},
        sp \in {None, "", "spk1"}, us \in {None, "saved1"}}

\* Every mode against every kind of reference, fixture situation and engine
\* behaviour.
References ==
    {NoAudio, Url("good"), Url("garbage"), Url("http_error"),
     LocalPath(UserWav), LocalPath(UserTmpWav), LocalPath(UserTmpFixture),
     LocalPath(MissingWav)}
Uploads == {Bytes("good"), Bytes("lowrate"), Bytes("empty"), Bytes("garbage")}

FileInputs ==
    {Scenario([DefaultReq EXCEPT !.mode = m, !.prompt_text = <<"C">>, !.upload = a[1],
                                 !.prompt_audio_url = a[2],
                                 !.save_speaker_id = sv, !.use_saved_speaker = us],
              [DefaultEnv EXCEPT !.is_initialized = init, !.engine = e], fx) :
        m \in ModeNames \ {"bogus"},
        a \in ({NoAudio} \X References) \cup (Uploads \X {NoAudio}),
        sv \in {None, "new1"}, us \in {None, "saved1"},
        init \in BOOLEAN, e \in {"audio", "nothing", "raise"}, fx \in FixtureSets}

\* Post-processing: speed, output rate, container, native rate, length.
EngineLens == {1, 3, 3000, 4100}

OutputInputs ==
    {Scenario([DefaultReq EXCEPT !.mode = m, !.upload = u, !.prompt_text = <<"C">>,
                                 !.speed = sp, !.format = f, !.sample_rate = sr],
              [DefaultEnv EXCEPT !.len = n, !.sample_rate = native], {BetterWav}) :
        m \in {"sft", "zero_shot", "instruct2"}, u \in {NoAudio, Bytes("good")},
        sp \in {5, 10, 20}, f \in {"wav", "mp3", "flac"},
        sr \in {0, 16000, 22050, 24000}, native \in {22050, 24000},
        n \in EngineLens}

\* Speed change and resampling against a failing scipy or torchaudio step.
DegradedInputs ==
    {Scenario([DefaultReq EXCEPT !.mode = "sft", !.speed = sp, !.format = f, !.sample_rate = sr],
              [DefaultEnv EXCEPT !.len = n, !.sample_rate = native,
                                 !.speed_ok = ok[1], !.resample_ok = ok[2]], {BetterWav}) :
        sp \in {5, 10, 20}, f \in {"wav", "mp3"}, sr \in {0, 16000, 24000},
        native \in {22050, 24000}, n \in {3, 3000},
        ok \in {<<FALSE, TRUE>>, <<TRUE, FALSE>>, <<FALSE, FALSE>>}}

Scenarios == ResolveInputs \cup FieldInputs \cup FileInputs \cup OutputInputs \cup DegradedInputs

(***************************************************************************)
(* tts_service.py: the custom speaker registry                             *)
(***************************************************************************)
\* Speaker names and transcripts as character sequences; "_" is the
\* separator the id derivation inserts between them.
SpeakerNames == {<<"a">>, <<"a", "_", "b">>}
Transcripts == {<<"b">>, <<"b", "_", "b">>}

\* hashlib.md5(...).hexdigest()[:16] as a number: a digest is determined by
\* the hashed string, and different strings have different digests.
CharCode(c) == CASE c = "a" -> 1 [] c = "b" -> 2 [] c = "_" -> 3 [] OTHER -> 4
RECURSIVE Md5(_)
Md5(str) == IF str = <<>> THEN 0 ELSE CharCode(Head(str)) + 5 * Md5(Tail(str))
NoSpeakerId == -1

\* speaker_id = md5(f"{speaker_name}_{prompt_text}")
SpeakerId(speaker_name, prompt_text) == Md5(speaker_name \o <<"_">> \o prompt_text)

\* f"custom_speakers/{speaker_id}.wav"
PermanentPath(speaker_id) == Path("custom_speakers", "speaker.wav", speaker_id)

UserSuffixWav == Path("cwd", SuffixName, 0)

\* The files on disk when the registry starts.
RegistryDisk == [p \in {UserWav, BetterWav, UserSuffixWav} |-> "good"]

\* The audio a registration is given.
RegistryAudio ==
    {Bytes("good"), Bytes("lowrate"), Bytes("garbage"), Bytes("empty"), Url("good"),
     LocalPath(UserWav), LocalPath(BetterWav), LocalPath(UserSuffixWav),
     LocalPath(MissingWav)}

\* The ids a deletion is asked for: every derivable id and one that is never
\* registered.
UnknownId == Md5(<<"z">>)
DeleteIds == {SpeakerId(n, t) : n \in SpeakerNames, t \in Transcripts} \cup {UnknownId}

\* The values of the custom_speakers dict; the dict is the set of its
\* values, keyed by their speaker_id.
SpeakerRecord(speaker_name, speaker_id, prompt_text, prompt_audio_path, created_at) ==
    [speaker_name |-> speaker_name, speaker_id |-> speaker_id,
     prompt_text |-> prompt_text, prompt_audio_path |-> prompt_audio_path,
     created_at |-> created_at]

Ids(cs) == {r.speaker_id : r \in cs}
Lookup(cs, speaker_id) == CHOOSE r \in cs : r.speaker_id = speaker_id
\* self.custom_speakers[speaker_id] = record
Store(cs, r) == {x \in cs : x.speaker_id # r.speaker_id} \cup {r}
\* del self.custom_speakers[speaker_id]
Remove(cs, speaker_id) == {x \in cs : x.speaker_id # speaker_id}

\* The dicts the registry methods return.
RegResponse(success, speaker_id, error) ==
    [success |-> success, speaker_id |-> speaker_id, error |-> error]
NoRegResponse == RegResponse(FALSE, NoSpeakerId, "-")

\* Variant: a record already stored under the derived id is kept.
add_custom_speaker_keeps_first(speaker_name, prompt_text, prompt_audio, prompt_audio_path, cs, w) ==
    LET Out(resp, c, wo) == Ret(FALSE, [response |-> resp, custom_speakers |-> c], wo)
    IN  IF ~validate_audio_file(w, prompt_audio_path)
        THEN Out(RegResponse(FALSE, NoSpeakerId, "invalid audio"), cs,
                 cleanup_temp(w, prompt_audio_path))
        ELSE
            LET speaker_id == SpeakerId(speaker_name, prompt_text)
                local == IsStr(prompt_audio) /\ prompt_audio.kind # "url"
                permanent_path == PermanentPath(speaker_id)
                final_audio_path == IF local THEN prompt_audio_path ELSE permanent_path
                w1 == IF local THEN w
                      ELSE cleanup_temp([w EXCEPT !.fs = WriteFile(@, permanent_path, w.fs[prompt_audio_path])],
                                        prompt_audio_path)
                w2 == [w1 EXCEPT !.nid = @ + 1]
                record == SpeakerRecord(speaker_name, speaker_id, prompt_text,
                                        final_audio_path, Uuid(w2.nid))
            IN  Out(RegResponse(TRUE, speaker_id, ""),
                    IF speaker_id \in Ids(cs) THEN cs ELSE Store(cs, record), w2)

\* Variant: a rejected reference is left where the ingestion put it.
add_custom_speaker_leaves_rejected(speaker_name, prompt_text, prompt_audio, prompt_audio_path, cs, w) ==
    LET Out(resp, c, wo) == Ret(FALSE, [response |-> resp, custom_speakers |-> c], wo)
    IN  IF ~validate_audio_file(w, prompt_audio_path)
        THEN Out(RegResponse(FALSE, NoSpeakerId, "invalid audio"), cs, w)
        ELSE
            LET speaker_id == SpeakerId(speaker_name, prompt_text)
                local == IsStr(prompt_audio) /\ prompt_audio.kind # "url"
                permanent_path == PermanentPath(speaker_id)
                final_audio_path == IF local THEN prompt_audio_path ELSE permanent_path
                w1 == IF local THEN w
                      ELSE cleanup_temp([w EXCEPT !.fs = WriteFile(@, permanent_path, w.fs[prompt_audio_path])],
                                        prompt_audio_path)
                w2 == [w1 EXCEPT !.nid = @ + 1]
                record == SpeakerRecord(speaker_name, speaker_id, prompt_text,
                                        final_audio_path, Uuid(w2.nid))
            IN  Out(RegResponse(TRUE, speaker_id, ""), Store(cs, record), w2)

\* Variant: a durable copy already on disk is kept instead of overwritten.
add_custom_speaker_keeps_existing_copy(speaker_name, prompt_text, prompt_audio, prompt_audio_path, cs, w) ==
    LET Out(resp, c, wo) == Ret(FALSE, [response |-> resp, custom_speakers |-> c], wo)
    IN  IF ~validate_audio_file(w, prompt_audio_path)
        THEN Out(RegResponse(FALSE, NoSpeakerId, "invalid audio"), cs,
                 cleanup_temp(w, prompt_audio_path))
        ELSE
            LET speaker_id == SpeakerId(speaker_name, prompt_text)
                local == IsStr(prompt_audio) /\ prompt_audio.kind # "url"
                permanent_path == PermanentPath(speaker_id)
                final_audio_path == IF local THEN prompt_audio_path ELSE permanent_path
                w1 == IF local THEN w
                      ELSE IF Exists(w, permanent_path) THEN cleanup_temp(w, prompt_audio_path)
                      ELSE cleanup_temp([w EXCEPT !.fs = WriteFile(@, permanent_path, w.fs[prompt_audio_path])],
                                        prompt_audio_path)
                w2 == [w1 EXCEPT !.nid = @ + 1]
                record == SpeakerRecord(speaker_name, speaker_id, prompt_text,
                                        final_audio_path, Uuid(w2.nid))
            IN  Out(RegResponse(TRUE, speaker_id, ""), Store(cs, record), w2)

\* add_custom_speaker after its one await (the ingestion): validation, id
\* derivation, the durable copy and the record write run without suspension.
\* val is [response, custom_speakers].
add_custom_speaker(speaker_name, prompt_text, prompt_audio, prompt_audio_path, cs, w) ==
    LET Out(resp, c, wo) == Ret(FALSE, [response |-> resp, custom_speakers |-> c], wo)
    IN  IF ~validate_audio_file(w, prompt_audio_path)
        THEN Out(RegResponse(FALSE, NoSpeakerId, "invalid audio"), cs,
                 cleanup_temp(w, prompt_audio_path))
        ELSE
            LET speaker_id == SpeakerId(speaker_name, prompt_text)
                local == IsStr(prompt_audio) /\ prompt_audio.kind # "url"
                permanent_path == PermanentPath(speaker_id)
                final_audio_path == IF local THEN prompt_audio_path ELSE permanent_path
                w1 == IF local THEN w
                      ELSE cleanup_temp([w EXCEPT !.fs = WriteFile(@, permanent_path, w.fs[prompt_audio_path])],
                                        prompt_audio_path)
                w2 == [w1 EXCEPT !.nid = @ + 1]
                record == SpeakerRecord(speaker_name, speaker_id, prompt_text,
                                        final_audio_path, Uuid(w2.nid))
            IN  Out(RegResponse(TRUE, speaker_id, ""), Store(cs, record), w2)

\* Variant: a not-found request is answered like a successful one.
delete_custom_speaker_always_succeeds(speaker_id, cs, w) ==
    LET Out(resp, c, wo) == Ret(FALSE, [response |-> resp, custom_speakers |-> c], wo)
    IN  IF speaker_id \in Ids(cs)
        THEN LET audio_path == Lookup(cs, speaker_id).prompt_audio_path
                 w1 == IF Exists(w, audio_path) /\ ~EndsWithProtected(audio_path)
                       THEN [w EXCEPT !.fs = Unlink(@, audio_path), !.removed = Append(@, audio_path)]
                       ELSE w
             IN  Out(RegResponse(TRUE, NoSpeakerId, ""), Remove(cs, speaker_id), w1)
        ELSE Out(RegResponse(TRUE, NoSpeakerId, ""), cs, w)

\* Variant: the audio file is unlinked whatever its name.
delete_custom_speaker_unprotected(speaker_id, cs, w) ==
    LET Out(resp, c, wo) == Ret(FALSE, [response |-> resp, custom_speakers |-> c], wo)
    IN  IF speaker_id \in Ids(cs)
        THEN LET audio_path == Lookup(cs, speaker_id).prompt_audio_path
                 w1 == IF Exists(w, audio_path)
                       THEN [w EXCEPT !.fs = Unlink(@, audio_path), !.removed = Append(@, audio_path)]
                       ELSE w
             IN  Out(RegResponse(TRUE, NoSpeakerId, ""), Remove(cs, speaker_id), w1)
        ELSE Out(RegResponse(FALSE, NoSpeakerId, "not found"), cs, w)

\* delete_custom_speaker: no await anywhere.  val is [response, custom_speakers].
delete_custom_speaker(speaker_id, cs, w) ==
    LET Out(resp, c, wo) == Ret(FALSE, [response |-> resp, custom_speakers |-> c], wo)
    IN  IF speaker_id \in Ids(cs)
        THEN LET audio_path == Lookup(cs, speaker_id).prompt_audio_path
                 w1 == IF Exists(w, audio_path) /\ ~EndsWithProtected(audio_path)
                       THEN [w EXCEPT !.fs = Unlink(@, audio_path), !.removed = Append(@, audio_path)]
                       ELSE w
             IN  Out(RegResponse(TRUE, NoSpeakerId, ""), Remove(cs, speaker_id), w1)
        ELSE Out(RegResponse(FALSE, NoSpeakerId, "not found"), cs, w)

\* One add_custom_speaker call: its arguments, where it stands, the path its
\* ingestion returned, what it returned and the created_at it stamped.
AddIdle ==
    [pc |-> "idle", speaker_name |-> <<>>, prompt_text |-> <<>>, prompt_audio |-> NoAudio,
     prompt_audio_path |-> NoPath, response |-> NoRegResponse, created_at |-> NoId]

\* The last delete_custom_speaker call: its argument, the registry and the
\* disk it found (before) and left (after), and what it returned.
NoDelete ==
    [called |-> FALSE, speaker_id |-> NoSpeakerId, response |-> NoRegResponse,
     before |-> [custom_speakers |-> {}, fs |-> <<>>],
     after |-> [custom_speakers |-> {}, fs |-> <<>>]]

RegIdle == [custom_speakers |-> {}, adds |-> [i \in 1..MaxAdds |-> AddIdle], del |-> NoDelete]

(***************************************************************************)
(* tts_service.py, config.py: the worker pool                              *)
(***************************************************************************)
\* config.py: max_concurrent_requests: int = 4
max_concurrent_requests == 4

\* The limits a deployment may configure.
ConfiguredLimits == {1, max_concurrent_requests}

\* os.cpu_count() of the host.
CpuCounts == {1, 2}

\* run_in_executor(None, ...) submits to the loop's default
\* ThreadPoolExecutor, whose size is min(32, cpu_count + 4); the configured
\* limit is not an input of it.
max_workers(cpu_count) == IF cpu_count + 4 < 32 THEN cpu_count + 4 ELSE 32

Requests == 1..NumRequests

\* Each request is idle (not arrived), queued (its engine call is submitted
\* to the executor), running (a worker thread is inside the engine call) or
\* done.
PoolIdle == [limit |-> max_concurrent_requests, cpu_count |-> 1, pc |-> [i \in Requests |-> "idle"]]

(***************************************************************************)
(* tts_service.py: AudioFileHandler.load_wav                               *)
(***************************************************************************)
\* A file as torchaudio.load sees it: whether it decodes, its sample rate
\* and its number of frames.
Wav(decodes, sample_rate, frames) ==
    [decodes |-> decodes, sample_rate |-> sample_rate, frames |-> frames]

Wavs ==
    {Wav(d, r, n) : d \in BOOLEAN,
                    r \in {8000, 11025, 15999, 16000, 16001, 22050, 24000, 44100, 48000},
                    n \in {1, 160, 16000, 44100}}

\* What load_wav hands back: the waveform's rate and frames and whether the
\* resampler ran, or a raise.
Speech(raised, sample_rate, frames, resampled) ==
    [raised |-> raised, sample_rate |-> sample_rate, frames |-> frames,
     resampled |-> resampled]
NoSpeech == Speech(TRUE, 0, 0, FALSE)

\* Variant: a rate that differs from the target is resampled either way.
load_wav_resamples_up(wav, target_sr) ==
    IF ~wav.decodes THEN NoSpeech
    ELSE IF wav.sample_rate # target_sr
    THEN Speech(FALSE, target_sr,
                ResampleLength(wav.frames, wav.sample_rate, target_sr), TRUE)
    ELSE Speech(FALSE, wav.sample_rate, wav.frames, FALSE)

\* load_wav: a failed decode and the failed assertion are both caught and
\* raised again as ValueError.
load_wav(wav, target_sr) ==
    IF ~wav.decodes THEN NoSpeech
    ELSE IF wav.sample_rate # target_sr
    THEN IF ~(wav.sample_rate > target_sr) THEN NoSpeech
         ELSE Speech(FALSE, target_sr,
                     ResampleLength(wav.frames, wav.sample_rate, target_sr), TRUE)
    ELSE Speech(FALSE, wav.sample_rate, wav.frames, FALSE)

LwIdle == [pc |-> "idle", wav |-> Wav(TRUE, 16000, 1), speech |-> Speech(FALSE, 0, 0, FALSE)]

(***************************************************************************)
(* main.py: the streaming transports                                       *)
(***************************************************************************)
\* The WebSocket endpoint, the Server-Sent-Events endpoint, and the three
\* handlers that return a chunked body: /tts/stream, and the zero-shot and
\* ultimate endpoints with stream=true.
BodyEndpoints == {"stream", "zero_shot", "ultimate"}
Endpoints == {"ws", "sse"} \cup BodyEndpoints

\* SynthesisMode(value): the member with that value; ValueError otherwise.
ValueError == "<ValueError>"
SynthesisMode(value) ==
    CASE value = "basic" -> "BASIC"
      [] value = "zero_shot" -> "ZERO_SHOT"
      [] value = "cross_lingual" -> "CROSS_LINGUAL"
      [] value = "instruct" -> "INSTRUCT"
      [] value = "instruct2" -> "INSTRUCT2"
      [] value = "voice_conversion" -> "VOICE_CONVERSION"
      [] OTHER -> ValueError

\* AudioFormat(value): the member with that value; ValueError otherwise.
AudioFormat(value) == IF value \in {"wav", "mp3", "flac"} THEN value ELSE ValueError

\* The messages a WebSocket client sends: text that json.loads rejects, or
\* a JSON object with or without a text field, a mode value and a format
\* value (missing ones read as "basic" and "wav") and a prompt_audio_url.
Messages ==
    {[json |-> FALSE, has_text |-> FALSE, mode |-> "basic", format |-> "wav",
      prompt_audio_url |-> NoAudio]} \cup
    {[json |-> TRUE, has_text |-> FALSE, mode |-> m, format |-> "wav",
      prompt_audio_url |-> NoAudio] : m \in {"basic", "auto"}} \cup
    {[json |-> TRUE, has_text |-> TRUE, mode |-> m, format |-> f, prompt_audio_url |-> a] :
        m \in {"basic", "zero_shot", "auto"}, f \in {"wav", "ogg"},
        a \in {NoAudio, Url("good"), Url("garbage")}}

\* len(base64.b64encode(chunk)) for a chunk of n bytes.
b64encode(n) == 4 * ((n + 2) \div 3)

\* One item written to the client: the request it answers (the message
\* number on a WebSocket, 1 elsewhere), its type, and its payload length.
Item(n, type, data) == [n |-> n, type |-> type, data |-> data]

(***************************************************************************)
(* State machine                                                           *)
(***************************************************************************)
NoRequest == TTSRequest(<<>>, "BASIC", None, "zh", 10, "wav", 0, NoText, NoAudio, NoText, FALSE)

NsIdle ==
    [pc |-> "idle", tts |-> NoRequest, result |-> NoResult, response |-> NoResponse,
     ingested |-> NoPath, calls |-> <<>>, made |-> {}, removed |-> <<>>]

StIdle ==
    [pc |-> "idle", tts |-> NoRequest, buffer |-> 0, sent |-> <<>>,
     cleanup_path |-> NoPath, calls |-> <<>>, made |-> {}, removed |-> <<>>]

\* A connection or response: the handler's position, the messages read,
\* the request being synthesised and its stream, how each request ended
\* ("-" while it has not), the items written, whether an exception left the
\* body generator, and who closed the connection.
TrIdle ==
    [endpoint |-> "ws", pc |-> "idle", msgs |-> <<>>, tts |-> NoRequest,
     buffer |-> 0, sent |-> 0, cleanup_path |-> NoPath, outcome |-> <<>>,
     out |-> <<>>, escaped |-> FALSE, closed_by |-> "-"]

\* One call of a handler that takes its reference as an upload or as a URL
\* (zero_shot_tts, cross_lingual_tts, add_custom_speaker): the two inputs,
\* the HTTP status of the answer (0 before it), and whether the service
\* was called.
HttpIdle ==
    [endpoint |-> "zero_shot", upload |-> NoAudio, prompt_audio_url |-> NoAudio,
     pc |-> "idle", status |-> 0, attempted |-> FALSE]

Init ==
    \E s \in Scenarios :
        /\ req = s.req
        /\ env = s.env
        /\ fs = s.fs
        /\ ntemp = 0
        /\ nid = 0
        /\ spk2info = {}
        /\ ns = NsIdle
        /\ st = StIdle
        /\ reg = RegIdle
        /\ pool = PoolIdle
        /\ tr = TrIdle
        /\ lw = LwIdle
        /\ http = HttpIdle

World == [fs |-> fs, ntemp |-> ntemp, nid |-> nid, calls |-> <<>>, made |-> {}, removed |-> <<>>, spk2info |-> spk2info]

Fresh(w) == [w EXCEPT !.calls = <<>>, !.made = {}, !.removed = <<>>]

Commit(w) ==
    /\ fs' = w.fs
    /\ ntemp' = w.ntemp
    /\ nid' = w.nid
    /\ spk2info' = w.spk2info

\* POST /api/v1/tts/ultimate[-upload] with stream=false.
ultimate_tts ==
    /\ ns.pc = "idle"
    /\ LET b == build_request(req, FALSE, World)
           s == synthesize(b.val, Fresh(b.w))
           response == [convert_result_to_response(s.val.result)
                            EXCEPT !.request_id = UltimateId(auto_mode(req))]
       IN  /\ ns' = [pc |-> "done", tts |-> b.val, result |-> s.val.result,
                     response |-> response, ingested |-> s.val.ingested,
                     calls |-> s.w.calls, made |-> s.w.made,
                     removed |-> s.w.removed]
           /\ Commit(s.w)
    /\ UNCHANGED <<req, env, st, reg, pool, tr, lw, http>>

\* POST /api/v1/tts/ultimate[-upload] with stream=true: the handler returns
\* a StreamingResponse around a generator that has not started.
ultimate_tts_stream ==
    /\ st.pc = "idle"
    /\ LET b == build_request(req, TRUE, World)
       IN  /\ st' = [StIdle EXCEPT !.pc = "created", !.tts = b.val]
           /\ Commit(b.w)
    /\ UNCHANGED <<req, env, ns, reg, pool, tr, lw, http>>

\* The transport pulls the first chunk: synthesize_stream runs to its first
\* yield, or raises.
StreamStart ==
    /\ st.pc = "created"
    /\ LET o == stream_open(st.tts, World)
       IN  /\ st' = [st EXCEPT !.pc = IF o.raised THEN "failed" ELSE "yielding",
                               !.buffer = o.val.buffer,
                               !.sent = IF o.raised THEN <<>>
                                        ELSE <<Chunks(o.val.buffer)[1]>>,
                               !.cleanup_path = o.val.cleanup_path,
                               !.calls = o.w.calls,
                               !.made = o.w.made,
                               !.removed = o.w.removed]
           /\ Commit(o.w)
    /\ UNCHANGED <<req, env, ns, reg, pool, tr, lw, http>>

\* Variant: every slice is taken to be a full chunk.
StreamNextChunk_full_slices ==
    /\ st.pc = "yielding"
    /\ Len(st.sent) < Len(Chunks(st.buffer))
    /\ st' = [st EXCEPT !.sent = Append(@, ChunkSize)]
    /\ UNCHANGED <<req, env, fs, ntemp, nid, spk2info, ns, reg, pool, tr, lw, http>>

\* The transport pulls another chunk and there is one.
StreamNextChunk ==
    /\ st.pc = "yielding"
    /\ Len(st.sent) < Len(Chunks(st.buffer))
    /\ st' = [st EXCEPT !.sent = Append(@, Chunks(st.buffer)[Len(st.sent) + 1])]
    /\ UNCHANGED <<req, env, fs, ntemp, nid, spk2info, ns, reg, pool, tr, lw, http>>

\* The transport pulls another chunk and the buffer is exhausted: the loop
\* ends and the finally block runs.
StreamFinish ==
    /\ st.pc = "yielding"
    /\ Len(st.sent) = Len(Chunks(st.buffer))
    /\ LET w == cleanup_protected(World, st.cleanup_path)
       IN  /\ st' = [st EXCEPT !.pc = "done", !.removed = @ \o w.removed]
           /\ Commit(w)
    /\ UNCHANGED <<req, env, ns, reg, pool, tr, lw, http>>

\* Variant: the cleanup sits after the loop instead of in a finally block,
\* so closing the generator at a yield skips it.
StreamClose_cleanup_after_loop ==
    /\ st.pc = "yielding"
    /\ st' = [st EXCEPT !.pc = "closed"]
    /\ UNCHANGED <<req, env, fs, ntemp, nid, spk2info, ns, reg, pool, tr, lw, http>>

\* The client goes away and the transport closes the generator at its
\* current yield: the finally block runs.
StreamClose ==
    /\ st.pc = "yielding"
    /\ LET w == cleanup_protected(World, st.cleanup_path)
       IN  /\ st' = [st EXCEPT !.pc = "closed", !.removed = @ \o w.removed]
           /\ Commit(w)
    /\ UNCHANGED <<req, env, ns, reg, pool, tr, lw, http>>

Next ==
    \/ ultimate_tts
    \/ ultimate_tts_stream
    \/ StreamStart
    \/ StreamNextChunk
    \/ StreamFinish
    \/ StreamClose

Spec == Init /\ [][Next]_vars

(***************************************************************************)
(* State machine of the worker pool                                        *)
(***************************************************************************)
InFlight == {i \in Requests : pool.pc[i] = "running"}

\* A request reaches its run_in_executor call.
Submit(i) ==
    /\ pool.pc[i] = "idle"
    /\ pool' = [pool EXCEPT !.pc[i] = "queued"]
    /\ UNCHANGED <<req, env, fs, ntemp, nid, spk2info, ns, st, reg, tr, lw, http>>

\* A free worker thread takes the engine call from the executor's queue.
Run(i) ==
    /\ pool.pc[i] = "queued"
    /\ Cardinality(InFlight) < max_workers(pool.cpu_count)
    /\ pool' = [pool EXCEPT !.pc[i] = "running"]
    /\ UNCHANGED <<req, env, fs, ntemp, nid, spk2info, ns, st, reg, tr, lw, http>>

\* The engine call returns.
Return(i) ==
    /\ pool.pc[i] = "running"
    /\ pool' = [pool EXCEPT !.pc[i] = "done"]
    /\ UNCHANGED <<req, env, fs, ntemp, nid, spk2info, ns, st, reg, tr, lw, http>>

InitPool ==
    /\ req = DefaultReq
    /\ env = DefaultEnv
    /\ fs = RegistryDisk
    /\ ntemp = 0
    /\ nid = 0
    /\ spk2info = {}
    /\ ns = NsIdle
    /\ st = StIdle
    /\ reg = RegIdle
    /\ tr = TrIdle
    /\ lw = LwIdle
    /\ http = HttpIdle
    /\ \E limit \in ConfiguredLimits, cpu_count \in CpuCounts :
        pool = [PoolIdle EXCEPT !.limit = limit, !.cpu_count = cpu_count]

NextPool ==
    \/ \E i \in Requests : Submit(i)
    \/ \E i \in Requests : Run(i)
    \/ \E i \in Requests : Return(i)

SpecPool == InitPool /\ [][NextPool]_vars

(***************************************************************************)
(* State machine of the registry                                           *)
(***************************************************************************)
\* add_custom_speaker is called and runs up to the return of its await.  A
\* raise from the ingestion is caught by the method's except.
AddStart(i) ==
    /\ reg.adds[i].pc = "idle"
    /\ \E n \in SpeakerNames, t \in Transcripts, a \in RegistryAudio :
        LET g == process_audio_input(a, World)
            call == [AddIdle EXCEPT !.speaker_name = n, !.prompt_text = t, !.prompt_audio = a]
        IN  /\ reg' = [reg EXCEPT !.adds[i] =
                        IF g.raised
                        THEN [call EXCEPT !.pc = "done",
                                          !.response = RegResponse(FALSE, NoSpeakerId, "exception")]
                        ELSE [call EXCEPT !.pc = "ingested", !.prompt_audio_path = g.val]]
            /\ Commit(g.w)
    /\ UNCHANGED <<req, env, ns, st, pool, tr, lw, http>>

\* The call resumes after its await and runs to its return.
AddFinish(i) ==
    /\ reg.adds[i].pc = "ingested"
    /\ LET c == reg.adds[i]
           r == add_custom_speaker(c.speaker_name, c.prompt_text, c.prompt_audio,
                                   c.prompt_audio_path, reg.custom_speakers, World)
       IN  /\ reg' = [reg EXCEPT !.custom_speakers = r.val.custom_speakers,
                                 !.adds[i] = [c EXCEPT !.pc = "done",
                                                       !.response = r.val.response,
                                                       !.created_at = IF r.val.response.success
                                                                      THEN Uuid(r.w.nid) ELSE NoId]]
           /\ Commit(r.w)
    /\ UNCHANGED <<req, env, ns, st, pool, tr, lw, http>>

\* delete_custom_speaker is called and runs to its return.
Delete ==
    /\ \E speaker_id \in DeleteIds :
        LET r == delete_custom_speaker(speaker_id, reg.custom_speakers, World)
        IN  /\ reg' = [reg EXCEPT !.custom_speakers = r.val.custom_speakers,
                                  !.del = [called |-> TRUE, speaker_id |-> speaker_id,
                                           response |-> r.val.response,
                                           before |-> [custom_speakers |-> reg.custom_speakers,
                                                       fs |-> fs],
                                           after |-> [custom_speakers |-> r.val.custom_speakers,
                                                      fs |-> r.w.fs]]]
            /\ Commit(r.w)
    /\ UNCHANGED <<req, env, ns, st, pool, tr, lw, http>>

InitRegistry ==
    /\ req = DefaultReq
    /\ env = DefaultEnv
    /\ fs = RegistryDisk
    /\ ntemp = 0
    /\ nid = 0
    /\ spk2info = {}
    /\ ns = NsIdle
    /\ st = StIdle
    /\ reg = RegIdle
    /\ pool = PoolIdle
    /\ tr = TrIdle
    /\ lw = LwIdle
    /\ http = HttpIdle

NextRegistry ==
    \/ \E i \in 1..MaxAdds : AddStart(i)
    \/ \E i \in 1..MaxAdds : AddFinish(i)
    \/ Delete

SpecRegistry == InitRegistry /\ [][NextRegistry]_vars

(***************************************************************************)
(* State machine of the streaming transports                               *)
(***************************************************************************)
\* The request of the response being produced.
Current == IF tr.endpoint = "ws" THEN Len(tr.msgs) ELSE 1

\* The handler runs up to its first suspension: the WebSocket is accepted;
\* the HTTP handlers return a StreamingResponse around a generator that has
\* not started, or an error response.
Respond ==
    /\ tr.pc = "idle"
    /\ LET input == IF req.upload # NoAudio THEN req.upload ELSE req.prompt_audio_url
           b == build_request(req, TRUE, World)
       IN  CASE tr.endpoint = "ws" ->
                    /\ tr' = [tr EXCEPT !.pc = "receiving"]
                    /\ UNCHANGED <<fs, ntemp, nid, spk2info>>
             [] tr.endpoint = "sse" ->
                    /\ tr' = [tr EXCEPT !.pc = "created", !.outcome = <<"-">>]
                    /\ UNCHANGED <<fs, ntemp, nid, spk2info>>
             [] tr.endpoint = "stream" ->
                    /\ tr' = [tr EXCEPT !.pc = "created", !.outcome = <<"-">>]
                    /\ UNCHANGED <<fs, ntemp, nid, spk2info>>
             [] tr.endpoint = "zero_shot" ->
                    /\ tr' = IF ~AudioTruthy(input) THEN [tr EXCEPT !.pc = "rejected"]
                             ELSE [tr EXCEPT !.pc = "created", !.outcome = <<"-">>,
                                     !.tts = TTSRequest(req.text, "ZERO_SHOT", None, req.language,
                                                       req.speed, req.format, 0, req.prompt_text,
                                                       input, NoText, TRUE)]
                    /\ UNCHANGED <<fs, ntemp, nid, spk2info>>
             [] tr.endpoint = "ultimate" ->
                    /\ tr' = [tr EXCEPT !.pc = "created", !.outcome = <<"-">>, !.tts = b.val]
                    /\ Commit(b.w)
    /\ UNCHANGED <<req, env, ns, st, reg, pool, lw, http>>

\* Variant: a message without a text field ends the connection loop.
WsReceive_missing_text_closes ==
    /\ tr.endpoint = "ws"
    /\ tr.pc = "receiving"
    /\ Len(tr.msgs) < MaxMessages
    /\ \E m \in Messages :
        LET n == Len(tr.msgs) + 1
            mode == SynthesisMode(m.mode)
            format == AudioFormat(m.format)
            t == [tr EXCEPT !.msgs = Append(@, m), !.outcome = Append(@, "-")]
        IN  tr' = IF ~m.json
                  THEN [t EXCEPT !.out = Append(@, Item(n, "error", 0)),
                                 !.pc = "closed", !.closed_by = "server"]
                  ELSE IF ~m.has_text
                  THEN [t EXCEPT !.out = Append(@, Item(n, "error", 0)),
                                 !.pc = "closed", !.closed_by = "server"]
                  ELSE IF mode = ValueError \/ format = ValueError
                  THEN [t EXCEPT !.out = Append(@, Item(n, "error", 0)),
                                 !.pc = "closed", !.closed_by = "server"]
                  ELSE [t EXCEPT !.out = Append(@, Item(n, "status", 0)),
                                 !.pc = "status_sent",
                                 !.tts = TTSRequest(req.text, mode, None, "zh", 10, format, 0,
                                                    NoText, m.prompt_audio_url, NoText, TRUE)]
    /\ UNCHANGED <<req, env, fs, ntemp, nid, spk2info, ns, st, reg, pool, lw, http>>

\* Variant: the request is built inside the inner try, so a value that is
\* no member of its enumeration is answered and the loop continues.
WsReceive_invalid_value_continues ==
    /\ tr.endpoint = "ws"
    /\ tr.pc = "receiving"
    /\ Len(tr.msgs) < MaxMessages
    /\ \E m \in Messages :
        LET n == Len(tr.msgs) + 1
            mode == SynthesisMode(m.mode)
            format == AudioFormat(m.format)
            t == [tr EXCEPT !.msgs = Append(@, m), !.outcome = Append(@, "-")]
        IN  tr' = IF ~m.json
                  THEN [t EXCEPT !.out = Append(@, Item(n, "error", 0)),
                                 !.pc = "closed", !.closed_by = "server"]
                  ELSE IF ~m.has_text
                  THEN [t EXCEPT !.out = Append(@, Item(n, "error", 0))]
                  ELSE IF mode = ValueError \/ format = ValueError
                  THEN [t EXCEPT !.out = Append(@, Item(n, "error", 0))]
                  ELSE [t EXCEPT !.out = Append(@, Item(n, "status", 0)),
                                 !.pc = "status_sent",
                                 !.tts = TTSRequest(req.text, mode, None, "zh", 10, format, 0,
                                                    NoText, m.prompt_audio_url, NoText, TRUE)]
    /\ UNCHANGED <<req, env, fs, ntemp, nid, spk2info, ns, st, reg, pool, lw, http>>


\* websocket_tts_stream reads one message and handles it up to the status
\* envelope.  A message without text is answered with an error envelope and
\* the loop continues; text that is no JSON, and a mode or format value that
\* is no member of its enumeration, raise outside the inner try, so the
\* outer handler sends one error envelope and the handler returns.
WsReceive ==
    /\ tr.endpoint = "ws"
    /\ tr.pc = "receiving"
    /\ Len(tr.msgs) < MaxMessages
    /\ \E m \in Messages :
        LET n == Len(tr.msgs) + 1
            mode == SynthesisMode(m.mode)
            format == AudioFormat(m.format)
            t == [tr EXCEPT !.msgs = Append(@, m), !.outcome = Append(@, "-")]
        IN  tr' = IF ~m.json
                  THEN [t EXCEPT !.out = Append(@, Item(n, "error", 0)),
                                 !.pc = "closed", !.closed_by = "server"]
                  ELSE IF ~m.has_text
                  THEN [t EXCEPT !.out = Append(@, Item(n, "error", 0))]
                  ELSE IF mode = ValueError \/ format = ValueError
                  THEN [t EXCEPT !.out = Append(@, Item(n, "error", 0)),
                                 !.pc = "closed", !.closed_by = "server"]
                  ELSE [t EXCEPT !.out = Append(@, Item(n, "status", 0)),
                                 !.pc = "status_sent",
                                 !.tts = TTSRequest(req.text, mode, None, "zh", 10, format, 0,
                                                    NoText, m.prompt_audio_url, NoText, TRUE)]
    /\ UNCHANGED <<req, env, fs, ntemp, nid, spk2info, ns, st, reg, pool, lw, http>>

\* Variant: the generator goes to the synthesis without a status event.
SseStart_without_status ==
    /\ tr.endpoint = "sse"
    /\ tr.pc = "created"
    /\ tr' = [tr EXCEPT !.pc = "status_sent",
                        !.tts = TTSRequest(req.text, "ZERO_SHOT", None, req.language, req.speed,
                                           req.format, 0, req.prompt_text,
                                           req.prompt_audio_url, NoText, TRUE)]
    /\ UNCHANGED <<req, env, fs, ntemp, nid, spk2info, ns, st, reg, pool, lw, http>>

\* event_generator from its first resumption to its first yield: the
\* TTSRequest is built and the processing event is emitted.
SseStart ==
    /\ tr.endpoint = "sse"
    /\ tr.pc = "created"
    /\ tr' = [tr EXCEPT !.pc = "status_sent",
                        !.out = Append(@, Item(1, "status", 0)),
                        !.tts = TTSRequest(req.text, "ZERO_SHOT", None, req.language, req.speed,
                                           req.format, 0, req.prompt_text,
                                           req.prompt_audio_url, NoText, TRUE)]
    /\ UNCHANGED <<req, env, fs, ntemp, nid, spk2info, ns, st, reg, pool, lw, http>>

\* The chunk the transport writes for a chunk of n bytes: a base64 envelope
\* on the WebSocket and in an event, the bytes themselves in a body.
ChunkItem(n) ==
    IF tr.endpoint \in BodyEndpoints THEN Item(Current, "bytes", n)
    ELSE Item(Current, "audio_chunk", b64encode(n))

\* synthesize_stream is pulled for the first time and runs to its first
\* yield, or raises.  The WebSocket handler and the event generator answer
\* a raise with an error item; stream_generator logs it and returns; the
\* zero-shot and ultimate handlers gave synthesize_stream itself to the
\* StreamingResponse, so the raise leaves the body generator.
Open ==
    /\ tr.pc = IF tr.endpoint \in {"ws", "sse"} THEN "status_sent" ELSE "created"
    /\ LET tts == IF tr.endpoint = "stream"
                  THEN TTSRequest(req.text, "BASIC", req.speaker, req.language, req.speed,
                                  req.format, 0, NoText, NoAudio, NoText, TRUE)
                  ELSE tr.tts
           o == stream_open(tts, World)
           t == [tr EXCEPT !.tts = tts, !.buffer = o.val.buffer,
                           !.cleanup_path = o.val.cleanup_path]
       IN  /\ tr' = IF ~o.raised
                    THEN [t EXCEPT !.pc = "yielding", !.sent = 1,
                                   !.out = Append(@, ChunkItem(Chunks(o.val.buffer)[1]))]
                    ELSE CASE tr.endpoint = "ws" ->
                                [t EXCEPT !.pc = "receiving", !.outcome[Current] = "failed",
                                          !.out = Append(@, Item(Current, "error", 0))]
                           [] tr.endpoint = "sse" ->
                                [t EXCEPT !.pc = "done", !.outcome[Current] = "failed",
                                          !.out = Append(@, Item(Current, "error", 0))]
                           [] tr.endpoint = "stream" ->
                                [t EXCEPT !.pc = "done", !.outcome[Current] = "failed"]
                           [] OTHER ->
                                [t EXCEPT !.pc = "done", !.outcome[Current] = "failed",
                                          !.escaped = TRUE]
           /\ Commit(o.w)
    /\ UNCHANGED <<req, env, ns, st, reg, pool, lw, http>>

\* The next chunk of the buffer is pulled and written.
NextChunk ==
    /\ tr.pc = "yielding"
    /\ tr.sent < Len(Chunks(tr.buffer))
    /\ tr' = [tr EXCEPT !.sent = @ + 1,
                        !.out = Append(@, ChunkItem(Chunks(tr.buffer)[tr.sent + 1]))]
    /\ UNCHANGED <<req, env, fs, ntemp, nid, spk2info, ns, st, reg, pool, lw, http>>

\* The buffer is exhausted: synthesize_stream's finally block runs, the
\* async for ends, and the WebSocket handler sends end and reads on, the
\* event generator emits completed, a body just ends.
Finish ==
    /\ tr.pc = "yielding"
    /\ tr.sent = Len(Chunks(tr.buffer))
    /\ LET w == cleanup_protected(World, tr.cleanup_path)
           t == [tr EXCEPT !.outcome[Current] = "completed"]
       IN  /\ tr' = CASE tr.endpoint = "ws" ->
                            [t EXCEPT !.pc = "receiving",
                                      !.out = Append(@, Item(Current, "end", 0))]
                       [] tr.endpoint = "sse" ->
                            [t EXCEPT !.pc = "done",
                                      !.out = Append(@, Item(Current, "completed", 0))]
                       [] OTHER -> [t EXCEPT !.pc = "done"]
           /\ Commit(w)
    /\ UNCHANGED <<req, env, ns, st, reg, pool, lw, http>>

\* The client goes away: nothing more can be written, and a stream that
\* is suspended at a yield is closed, which runs its finally block.
Disconnect ==
    /\ tr.pc \in {"receiving", "created", "status_sent", "yielding"}
    /\ LET w == IF tr.pc = "yielding" THEN cleanup_protected(World, tr.cleanup_path)
                ELSE World
       IN  /\ tr' = [tr EXCEPT !.pc = "closed", !.closed_by = "client"]
           /\ Commit(w)
    /\ UNCHANGED <<req, env, ns, st, reg, pool, lw, http>>

\* One endpoint, one HTTP payload, one engine and one disk per run.
InitTransport ==
    /\ \E endpoint \in Endpoints, url \in {NoAudio, Url("good"), Url("garbage")},
          init \in BOOLEAN, e \in {"audio", "nothing", "raise"}, n \in {1, 4100},
          fx \in {{}, {BetterWav}} :
        /\ req = [DefaultReq EXCEPT !.mode = "zero_shot", !.prompt_text = <<"C">>,
                                    !.prompt_audio_url = url]
        /\ env = [DefaultEnv EXCEPT !.is_initialized = init, !.engine = e, !.len = n]
        /\ fs = Disk(fx)
        /\ tr = [TrIdle EXCEPT !.endpoint = endpoint]
    /\ ntemp = 0
    /\ nid = 0
    /\ spk2info = {}
    /\ ns = NsIdle
    /\ st = StIdle
    /\ reg = RegIdle
    /\ pool = PoolIdle
    /\ lw = LwIdle
    /\ http = HttpIdle

NextTransport ==
    \/ Respond
    \/ WsReceive
    \/ SseStart
    \/ Open
    \/ NextChunk
    \/ Finish
    \/ Disconnect

SpecTransport == InitTransport /\ [][NextTransport]_vars

(***************************************************************************)
(* State machine of load_wav                                               *)
(***************************************************************************)
\* load_wav(wav_path) is called with the default target rate.
LoadWav ==
    /\ lw.pc = "idle"
    /\ lw' = [lw EXCEPT !.pc = "done", !.speech = load_wav(lw.wav, 16000)]
    /\ UNCHANGED <<req, env, fs, ntemp, nid, spk2info, ns, st, reg, pool, tr, http>>

InitLoadWav ==
    /\ req = DefaultReq
    /\ env = DefaultEnv
    /\ fs = RegistryDisk
    /\ ntemp = 0
    /\ nid = 0
    /\ spk2info = {}
    /\ ns = NsIdle
    /\ st = StIdle
    /\ reg = RegIdle
    /\ pool = PoolIdle
    /\ tr = TrIdle
    /\ http = HttpIdle
    /\ \E wav \in Wavs : lw = [LwIdle EXCEPT !.wav = wav]

NextLoadWav == LoadWav

SpecLoadWav == InitLoadWav /\ [][NextLoadWav]_vars

(***************************************************************************)
(* State machine of the handlers that take a reference                     *)
(***************************************************************************)
\* The handler runs to its answer.  prompt_audio_url is a required field of
\* CrossLingualTTSRequest and CustomSpeakerRequest, so a body without it is
\* answered 422 before the handler runs.  Inside the handler the
\* HTTPException(400) is raised within the try whose except Exception
\* answers every exception with HTTPException(500).
Handle ==
    /\ http.pc = "idle"
    /\ LET missing == /\ http.endpoint \in {"cross_lingual", "custom_speaker"}
                      /\ http.prompt_audio_url = NoAudio
           none == http.upload = NoAudio /\ ~AudioTruthy(http.prompt_audio_url)
           input == prompt_audio_input(http)
           tts == TTSRequest(req.text,
                             IF http.endpoint = "zero_shot" THEN "ZERO_SHOT" ELSE "CROSS_LINGUAL",
                             None, req.language, req.speed, req.format, 0,
                             IF http.endpoint = "zero_shot" THEN req.prompt_text ELSE NoText,
                             input, NoText, FALSE)
           s == synthesize(tts, World)
           g == process_audio_input(input, World)
       IN  IF missing
           THEN /\ http' = [http EXCEPT !.pc = "done", !.status = 422]
                /\ UNCHANGED <<fs, ntemp, nid, spk2info, reg>>
           ELSE IF none
           THEN /\ http' = [http EXCEPT !.pc = "done", !.status = 500]
                /\ UNCHANGED <<fs, ntemp, nid, spk2info, reg>>
           ELSE IF http.endpoint # "custom_speaker"
           THEN /\ http' = [http EXCEPT !.pc = "done", !.status = 200, !.attempted = TRUE]
                /\ Commit(s.w)
                /\ UNCHANGED reg
           ELSE \E n \in SpeakerNames, t \in Transcripts :
                LET r == add_custom_speaker(n, t, input, g.val,
                                            reg.custom_speakers, g.w)
                IN  /\ http' = [http EXCEPT !.pc = "done", !.status = 200, !.attempted = TRUE]
                    /\ IF g.raised
                       THEN Commit(g.w) /\ UNCHANGED reg
                       ELSE /\ Commit(r.w)
                            /\ reg' = [reg EXCEPT !.custom_speakers = r.val.custom_speakers]
    /\ UNCHANGED <<req, env, ns, st, pool, tr, lw>>

InitHandlers ==
    /\ \E endpoint \in {"zero_shot", "cross_lingual", "custom_speaker"}, u \in {NoAudio, EmptyBytes, Bytes("good")},
          url \in {NoAudio, EmptyStr, Url("good"), Url("garbage")},
          init \in BOOLEAN, e \in {"audio", "raise"} :
        /\ http = [HttpIdle EXCEPT !.endpoint = endpoint, !.upload = u,
                                   !.prompt_audio_url = url]
        /\ env = [DefaultEnv EXCEPT !.is_initialized = init, !.engine = e]
    /\ req = [DefaultReq EXCEPT !.prompt_text = <<"C">>]
    /\ fs = RegistryDisk
    /\ ntemp = 0
    /\ nid = 0
    /\ spk2info = {}
    /\ ns = NsIdle
    /\ st = StIdle
    /\ reg = RegIdle
    /\ pool = PoolIdle
    /\ tr = TrIdle
    /\ lw = LwIdle

NextHandlers == Handle

SpecHandlers == InitHandlers /\ [][NextHandlers]_vars

TypeOK ==
    /\ ns.pc \in {"idle", "done"}
    /\ st.pc \in {"idle", "created", "yielding", "failed", "done", "closed"}
    /\ ns.tts.mode \in Modes
    /\ st.tts.mode \in Modes

(***************************************************************************)
(* Properties                                                              *)
(***************************************************************************)
RECURSIVE SumSeq(_)
SumSeq(q) == IF q = <<>> THEN 0 ELSE Head(q) + SumSeq(Tail(q))

NsReturned == ns.pc = "done"
StHanded == st.pc # "idle"
StStarted == st.pc \in {"yielding", "failed", "done", "closed"}

\* The reference the request carries: the uploaded file when there is one,
\* otherwise the URL field; it is present when it is not empty.
Reference(r) == IF r.upload.kind # "none" THEN r.upload ELSE r.prompt_audio_url
RefPresent(r) ==
    \/ Reference(r).kind \in {"url", "path"}
    \/ Reference(r).kind = "bytes" /\ Reference(r).data # "nobytes"
TextPresent(t) == t # NoText /\ Len(t) > 0

\* C1: once a non-streaming synthesize call with a bytes or URL reference has
\* returned, no temporary reference file it created is left on disk.
C1_TempFilesGoneAfterSynthesize ==
    (NsReturned /\ ns.tts.prompt_audio.kind \in {"bytes", "url"})
        => \A p \in ns.made : p \notin DOMAIN fs

\* C2: when the payload succeeds on both delivery paths, the bytes streamed
\* add up to the file_size of the non-streaming artifact.
C2_StreamLengthEqualsFileSize ==
    (NsReturned /\ ns.result.success /\ st.pc = "done")
        => SumSeq(st.sent) = ns.result.file_size

\* The engine operation that belongs to each mode.
OperationOf(mode) ==
    CASE mode = "BASIC" -> "inference_zero_shot"
      [] mode = "ZERO_SHOT" -> "inference_zero_shot"
      [] mode = "CROSS_LINGUAL" -> "inference_cross_lingual"
      [] mode = "INSTRUCT" -> "inference_instruct2"
      [] mode = "INSTRUCT2" -> "inference_instruct2"
      [] mode = "VOICE_CONVERSION" -> "inference_vc"

UsableReference(a) == a.kind \in {"bytes", "url"} /\ a.data = "good"

\* C3: synthesize_stream on an initialised engine with a usable reference
\* invokes exactly one engine operation, the one of the request's mode, and
\* yields at least one chunk when that operation succeeds.
C3_StreamInvokesTheModeOperation ==
    (StStarted /\ env.is_initialized /\ UsableReference(st.tts.prompt_audio))
        => /\ Len(st.calls) = 1
           /\ st.calls[1].op = OperationOf(st.tts.mode)
           /\ env.engine = "audio" => Len(st.sent) >= 1

SavedSpeakerModes == {"BASIC", "ZERO_SHOT", "CROSS_LINGUAL", "INSTRUCT", "INSTRUCT2"}

\* C4: when the request names a saved speaker, every engine operation
\* invoked for it receives that id as its zero-shot speaker id.
C4_SavedSpeakerIdReachesEngine ==
    Truthy(req.use_saved_speaker) =>
        /\ ns.tts.mode \in SavedSpeakerModes =>
            \A i \in 1..Len(ns.calls) : ns.calls[i].spk = req.use_saved_speaker
        /\ st.tts.mode \in SavedSpeakerModes =>
            \A i \in 1..Len(st.calls) : st.calls[i].spk = req.use_saved_speaker

\* C5: when the request names a saved speaker, the request handed to the
\* dispatcher carries no reference audio and no transcript, on both paths.
C5_SavedSpeakerClearsReference ==
    Truthy(req.use_saved_speaker) =>
        /\ NsReturned => ns.tts.prompt_audio = NoAudio /\ ~TextPresent(ns.tts.prompt_text)
        /\ StHanded => st.tts.prompt_audio = NoAudio /\ ~TextPresent(st.tts.prompt_text)

C5_Witness ==
    /\ Truthy(req.use_saved_speaker)
    /\ RefPresent(req) /\ TextPresent(req.prompt_text)
    /\ NsReturned /\ StHanded
    /\ ns.tts.zero_shot_spk_id = req.use_saved_speaker

\* The mode each path dispatched is the one resolved for the payload.
Dispatched(mode) ==
    /\ NsReturned => ns.tts.mode = mode
    /\ StHanded => st.tts.mode = mode

\* C6: in auto mode, instruction text and reference audio both present
\* resolve to Instruct2 whatever the other fields are.
C6_AutoInstructionAndReferenceIsInstruct2 ==
    (req.mode = "auto" /\ TextPresent(req.instruct_text) /\ RefPresent(req))
        => Dispatched("INSTRUCT2")

C6_Witness ==
    /\ req.mode = "auto" /\ TextPresent(req.instruct_text) /\ RefPresent(req)
    /\ TextPresent(req.prompt_text) /\ req.speaker # None /\ req.language = "en"
    /\ NsReturned /\ ns.tts.mode = "INSTRUCT2"

CJKOnly(t) == (\E i \in 1..Len(t) : t[i] = "C") /\ (\A i \in 1..Len(t) : t[i] # "L")
LatinOnly(t) == (\E i \in 1..Len(t) : t[i] = "L") /\ (\A i \in 1..Len(t) : t[i] # "C")
Mixed(t) == (\E i \in 1..Len(t) : t[i] = "C") /\ (\E i \in 1..Len(t) : t[i] = "L")

TranscriptRule(r) ==
    /\ r.mode = "auto"
    /\ TextPresent(r.prompt_text) /\ RefPresent(r)
    /\ ~TextPresent(r.instruct_text)

\* C7: in auto mode with transcript and reference and no instruction, a
\* CJK-only transcript against a Latin-only text (or the reverse) resolves to
\* CrossLingual, and CJK-only text and transcript with language zh resolve
\* to ZeroShot.
C7_AutoScriptMismatchIsCrossLingual ==
    TranscriptRule(req) =>
        /\ (\/ CJKOnly(req.prompt_text) /\ LatinOnly(req.text)
            \/ LatinOnly(req.prompt_text) /\ CJKOnly(req.text))
                => Dispatched("CROSS_LINGUAL")
        /\ (CJKOnly(req.text) /\ CJKOnly(req.prompt_text) /\ req.language = "zh")
                => Dispatched("ZERO_SHOT")

C7_Witness ==
    /\ TranscriptRule(req) /\ req.language = "zh"
    /\ LatinOnly(req.prompt_text) /\ CJKOnly(req.text)
    /\ NsReturned /\ ns.tts.mode = "CROSS_LINGUAL"

\* C8 as stated: in auto mode a request whose text or transcript mixes CJK
\* and Latin is never resolved to CrossLingual, for every language code, and
\* under the transcript rule it resolves to ZeroShot.
C8_MixedScriptNeverCrossLingual ==
    (req.mode = "auto" /\ (Mixed(req.text) \/ (TextPresent(req.prompt_text) /\ Mixed(req.prompt_text))))
        => /\ NsReturned => ns.tts.mode # "CROSS_LINGUAL"
           /\ StHanded => st.tts.mode # "CROSS_LINGUAL"
           /\ TranscriptRule(req) => Dispatched("ZERO_SHOT")

\* C8 amended: with language zh, a request whose text or transcript mixes
\* CJK and Latin is never resolved to CrossLingual, and under the transcript
\* rule it resolves to ZeroShot.
C8_MixedScriptZhNeverCrossLingual ==
    (/\ req.mode = "auto" /\ req.language = "zh"
     /\ (Mixed(req.text) \/ (TextPresent(req.prompt_text) /\ Mixed(req.prompt_text))))
        => /\ NsReturned => ns.tts.mode # "CROSS_LINGUAL"
           /\ StHanded => st.tts.mode # "CROSS_LINGUAL"
           /\ TranscriptRule(req) => Dispatched("ZERO_SHOT")

C8_Witness ==
    /\ TranscriptRule(req) /\ req.language = "zh"
    /\ Mixed(req.text) /\ LatinOnly(req.prompt_text)
    /\ NsReturned /\ ns.tts.mode = "ZERO_SHOT"

\* C9: in auto mode a request without reference audio resolves to Basic,
\* whether or not it has a speaker id, a transcript or instruction text.
C9_AutoWithoutReferenceIsBasic ==
    (req.mode = "auto" /\ ~RefPresent(req)) => Dispatched("BASIC")

C9_Witness ==
    /\ req.mode = "auto" /\ ~RefPresent(req)
    /\ TextPresent(req.prompt_text) /\ TextPresent(req.instruct_text)
    /\ req.speaker = None
    /\ NsReturned /\ ns.tts.mode = "BASIC"

BasicScenario ==
    /\ req.mode = "auto" /\ req.language = "zh" /\ TextPresent(req.text)
    /\ req.upload = NoAudio /\ req.prompt_audio_url = NoAudio
    /\ req.speaker = None /\ req.format = "wav"
    /\ env.is_initialized /\ env.engine = "audio"

\* C10: a non-streaming auto request with text and language zh, no
\* reference and no speaker id, on an initialised engine whose inference
\* succeeds, is dispatched as Basic, hands the engine the fixture sample if
\* one exists and a silent placeholder it wrote otherwise, and returns
\* success with a positive duration and a .wav artifact.
C10_BasicScenarioSucceeds ==
    (NsReturned /\ BasicScenario) =>
        /\ ns.tts.mode = "BASIC" /\ ns.result.mode_used = "BASIC"
        /\ Len(ns.calls) = 1
        /\ ns.calls[1].ref = (IF BetterWav \in DOMAIN fs THEN BetterWav
                              ELSE IF ShortWav \in DOMAIN fs THEN ShortWav
                              ELSE Path("tmp", "tmp.wav", ns.calls[1].ref.id))
        /\ ({BetterWav, ShortWav} \cap DOMAIN fs = {} => ns.calls[1].ref \in ns.made)
        /\ ns.response.success
        /\ ns.response.duration.num > 0 /\ ns.response.duration.den > 0
        /\ ns.response.audio_url.dir = "outputs" /\ ns.response.audio_url.name = "wav"
        /\ ns.response.audio_url \in DOMAIN fs

C10_Witness ==
    /\ NsReturned /\ BasicScenario
    /\ {BetterWav, ShortWav} \cap DOMAIN fs = {}
    /\ ns.response.success /\ ns.calls[1].ref \in ns.made

StEnded == st.pc \in {"failed", "done", "closed"}

Count(q, x) == Cardinality({i \in 1..Len(q) : q[i] = x})

\* C11: the temporary file that the ingestion of a synthesize_stream call
\* created is still there while chunks are being yielded and is unlinked
\* exactly once when the sequence ends (exhausted, raised, or closed early);
\* the call never unlinks a file carrying a fixture name.
C11_StreamTempDeletedOnceAtEnd ==
    /\ st.cleanup_path \in st.made =>
        /\ st.pc = "yielding" =>
            st.cleanup_path \in DOMAIN fs /\ Count(st.removed, st.cleanup_path) = 0
        /\ StEnded =>
            st.cleanup_path \notin DOMAIN fs /\ Count(st.removed, st.cleanup_path) = 1
    /\ \A i \in 1..Len(st.removed) : st.removed[i].name \notin Protected

C11_Witness ==
    /\ st.pc = "closed"
    /\ st.cleanup_path \in st.made
    /\ Len(st.sent) < Len(Chunks(st.buffer))
    /\ st.cleanup_path \notin DOMAIN fs

\* C12: when the reference of the request is a local path that existed
\* before the request, that file still exists once the non-streaming call
\* has returned and once the streaming sequence has ended.
C12_CallerFileSurvives ==
    (/\ Reference(req).kind = "path"
     /\ Reference(req).path \in UserFiles
     /\ NsReturned \/ StEnded)
        => Reference(req).path \in DOMAIN fs

\* C15: the request id the caller of the non-streaming endpoint receives is
\* the one id synthesize assigned to the request (the id that names the
\* artifact file on success), on success and on every failure path.
C15_CallerReceivesAssignedId ==
    NsReturned => ns.response.request_id = ns.result.request_id

\* C16: every result synthesize returns is well formed: a success carries the
\* path of an existing file, a duration, a byte size, a sample rate, the mode
\* used and no error message; a failure carries an error message and a
\* request id and no artifact path.
C16_ResultWellFormed ==
    NsReturned =>
        IF ns.result.success
        THEN /\ ns.result.audio_file # NoPath
             /\ ns.result.audio_file \in DOMAIN fs
             /\ ns.result.duration # NoDuration
             /\ ns.result.file_size > 0
             /\ ns.result.sample_rate > 0
             /\ ns.result.mode_used = ns.tts.mode
             /\ ns.result.error_message = ""
        ELSE /\ ns.result.error_message # ""
             /\ ns.result.request_id # NoId
             /\ ns.result.audio_file = NoPath

C16_Witness ==
    /\ NsReturned
    /\ ns.result.success
    /\ ns.result.audio_file \in DOMAIN fs
    /\ ns.result.mode_used = "INSTRUCT2"

\* C17: while the engine is not initialised, synthesize returns a failure and
\* synthesize_stream fails before its first chunk, and neither ingests the
\* reference, creates a temporary file or invokes an engine operation.
C17_UninitialisedDoesNothing ==
    ~env.is_initialized =>
        /\ NsReturned =>
            /\ ~ns.result.success
            /\ ns.ingested = NoPath /\ ns.made = {} /\ ns.calls = <<>>
        /\ StStarted =>
            /\ st.pc = "failed" /\ st.sent = <<>>
            /\ st.cleanup_path = NoPath /\ st.made = {} /\ st.calls = <<>>

C17_Witness ==
    /\ ~env.is_initialized
    /\ NsReturned /\ ~ns.result.success
    /\ st.pc = "failed"
    /\ Reference(req).kind = "bytes"
    /\ ~Truthy(req.use_saved_speaker)

\* C13: at every moment the number of engine calls in flight is at most the
\* configured max_concurrent_requests.
C13_InFlightWithinConfiguredLimit == Cardinality(InFlight) <= pool.limit

\* The registrations that returned success.
Registered == {i \in 1..MaxAdds : reg.adds[i].pc = "done" /\ reg.adds[i].response.success}

\* C14: whatever the interleaving of registrations and deletions, a stored
\* record that points at the durable copy of its id was written by a
\* registration whose audio is what that file holds.
C14_RecordAndFileFromSameRegistration ==
    \A r \in reg.custom_speakers :
        r.prompt_audio_path = PermanentPath(r.speaker_id) =>
            \E i \in Registered :
                /\ reg.adds[i].created_at = r.created_at
                /\ r.prompt_audio_path \in DOMAIN fs
                /\ fs[r.prompt_audio_path] = Stored(reg.adds[i].prompt_audio.data)

C14_Witness ==
    \E i, j \in Registered :
        /\ i # j
        /\ reg.adds[i].response.speaker_id = reg.adds[j].response.speaker_id
        /\ reg.adds[i].prompt_audio = Bytes("good")
        /\ reg.adds[j].prompt_audio = Bytes("lowrate")
        /\ reg.adds[i].created_at.n < reg.adds[j].created_at.n
        /\ reg.adds[j].prompt_audio_path.id < reg.adds[i].prompt_audio_path.id
        /\ reg.del.called /\ reg.del.response.success
        /\ \E r \in reg.custom_speakers : r.created_at = reg.adds[j].created_at

DeletedUnknown == reg.del.called /\ reg.del.speaker_id \notin Ids(reg.del.before.custom_speakers)
DeletedRegistered == reg.del.called /\ reg.del.speaker_id \in Ids(reg.del.before.custom_speakers)

\* C18: a deletion asked for an id that is not registered answers not-found
\* and leaves the registry (its ids and every record) and the files on disk
\* as they were.
C18_DeleteUnknownChangesNothing ==
    DeletedUnknown =>
        /\ ~reg.del.response.success
        /\ reg.del.response.error = "not found"
        /\ reg.del.after = reg.del.before

C18_Witness ==
    /\ DeletedUnknown
    /\ reg.del.before.custom_speakers # {}
    /\ \E r \in reg.del.before.custom_speakers : r.prompt_audio_path = PermanentPath(r.speaker_id)

Max(S) == CHOOSE x \in S : \A y \in S : y <= x

\* C19: registrations with the same name and transcript return the same id,
\* and the registry holds one record under an id, written by the last
\* registration that returned that id.
C19_SameNameAndTranscriptSameId ==
    /\ \A i, j \in Registered :
        (/\ reg.adds[i].speaker_name = reg.adds[j].speaker_name
         /\ reg.adds[i].prompt_text = reg.adds[j].prompt_text)
            => reg.adds[i].response.speaker_id = reg.adds[j].response.speaker_id
    /\ \A id \in Ids(reg.custom_speakers) :
        /\ Cardinality({r \in reg.custom_speakers : r.speaker_id = id}) = 1
        /\ Lookup(reg.custom_speakers, id).created_at.n =
             Max({reg.adds[i].created_at.n : i \in {j \in Registered : reg.adds[j].response.speaker_id = id}})

C19_Witness ==
    \E i, j \in Registered :
        /\ i # j
        /\ reg.adds[i].speaker_name = reg.adds[j].speaker_name
        /\ reg.adds[i].prompt_text = reg.adds[j].prompt_text
        /\ reg.adds[i].created_at.n < reg.adds[j].created_at.n
        /\ reg.adds[j].response.speaker_id \in Ids(reg.custom_speakers)
        /\ Lookup(reg.custom_speakers, reg.adds[j].response.speaker_id).created_at = reg.adds[j].created_at
        /\ ~reg.del.called

\* The audio path of the record the last deletion found under its id.
DeletedPath == Lookup(reg.del.before.custom_speakers, reg.del.speaker_id).prompt_audio_path

\* C20 as stated: a deletion of a registered id removes the record and
\* nothing else from the registry, and unlinks the record's audio file
\* unless its file name is one of the two fixture names, in which case the
\* disk is left as it was.
C20_DeleteSparesFixtureNamesOnly ==
    DeletedRegistered =>
        /\ reg.del.response.success
        /\ reg.del.after.custom_speakers = Remove(reg.del.before.custom_speakers, reg.del.speaker_id)
        /\ IF DeletedPath.name \in Protected
           THEN reg.del.after.fs = reg.del.before.fs
           ELSE reg.del.after.fs = Unlink(reg.del.before.fs, DeletedPath)

\* C20 amended: the file is spared when its path ends with one of the two
\* fixture names.
C20_DeleteSparesPathsEndingInFixtureNames ==
    DeletedRegistered =>
        /\ reg.del.response.success
        /\ reg.del.after.custom_speakers = Remove(reg.del.before.custom_speakers, reg.del.speaker_id)
        /\ IF EndsWithProtected(DeletedPath)
           THEN reg.del.after.fs = reg.del.before.fs
           ELSE reg.del.after.fs = Unlink(reg.del.before.fs, DeletedPath)

C20_Witness ==
    /\ DeletedRegistered
    /\ DeletedPath = UserSuffixWav
    /\ UserSuffixWav \in DOMAIN reg.del.after.fs
    /\ reg.del.speaker_id \notin Ids(reg.del.after.custom_speakers)

\* The files under custom_speakers/ on a disk.
DurableFiles(f) == {q \in DOMAIN f : q.dir = "custom_speakers"}

\* Registration i returns from its validation with a rejection.
Rejects(i) ==
    /\ reg.adds[i].pc = "ingested"
    /\ reg'.adds[i].pc = "done"
    /\ reg'.adds[i].response.error = "invalid audio"

\* C21: a registration whose reference audio fails validation returns a
\* failure, leaves the registry as it was, creates no file under
\* custom_speakers/ and removes the temporary file its ingestion created.
C21_RejectedRegistrationLeavesNothing ==
    [][\A i \in 1..MaxAdds :
        Rejects(i) =>
            /\ ~reg'.adds[i].response.success
            /\ reg'.custom_speakers = reg.custom_speakers
            /\ DurableFiles(fs') = DurableFiles(fs)
            /\ \A q \in DurableFiles(fs) : fs'[q] = fs[q]
            /\ reg.adds[i].prompt_audio.kind \in {"bytes", "url"} =>
                   /\ reg.adds[i].prompt_audio_path.dir = "tmp"
                   /\ reg.adds[i].prompt_audio_path \notin DOMAIN fs']_vars

C21_Witness ==
    \E i \in 1..MaxAdds :
        /\ reg.adds[i].pc = "done"
        /\ reg.adds[i].response.error = "invalid audio"
        /\ reg.adds[i].prompt_audio = Bytes("empty")
        /\ reg.adds[i].prompt_audio_path \notin DOMAIN fs
        /\ reg.custom_speakers # {}

ReferenceModes == {"ZERO_SHOT", "CROSS_LINGUAL", "INSTRUCT", "INSTRUCT2", "VOICE_CONVERSION"}

\* C26: when a request in a mode that uses the reference carries a URL
\* reference that downloads and decodes, and the engine is up and
\* produces audio, the engine is invoked and the waveform of every
\* invocation was loaded from a file the call's ingestion downloaded.
C26_UrlReferenceIsIngestedForEngine ==
    (/\ NsReturned
     /\ ns.tts.mode \in ReferenceModes
     /\ ns.tts.prompt_audio = Url("good")
     /\ env.is_initialized /\ env.engine = "audio")
        => /\ ns.calls # <<>>
           /\ \A i \in 1..Len(ns.calls) : ns.calls[i].ref \in ns.made

\* C27: for a request in a mode that needs a reference and carries none, the
\* non-streaming call succeeds exactly when the streaming call of the same
\* request does not fail.
C27_SameMissingReferencePolicy ==
    (/\ NsReturned /\ StStarted
     /\ ns.tts.mode \in ReferenceModes
     /\ ~AudioTruthy(ns.tts.prompt_audio)
     /\ env.is_initialized /\ env.engine = "audio")
        => (ns.result.success <=> st.pc # "failed")

\* C28: once a BASIC request that found no fixture has completed, on
\* either path, no silent placeholder file it wrote is left on disk.
C28_PlaceholderGoneAfterBasic ==
    /\ (NsReturned /\ ns.tts.mode = "BASIC") => \A q \in ns.made : q \notin DOMAIN fs
    /\ (StEnded /\ st.tts.mode = "BASIC") => \A q \in st.made : q \notin DOMAIN fs

InvalidReference(a) ==
    \/ a.kind = "bytes" /\ a.data \in {"garbage", "empty"}
    \/ a.kind = "url" /\ a.data \in {"garbage", "empty"}

\* C29: a supplied reference that does not decode, or decodes to nothing,
\* makes synthesize return a failure and synthesize_stream fail, in both
\* cases without any engine operation having been invoked.
C29_InvalidReferenceFailsBeforeEngine ==
    /\ (NsReturned /\ InvalidReference(ns.tts.prompt_audio)) =>
            ~ns.result.success /\ ns.calls = <<>>
    /\ (StStarted /\ InvalidReference(st.tts.prompt_audio)) =>
            st.pc = "failed" /\ st.calls = <<>>

\* The request reached _process_audio_result with the engine's waveform.
Processed == NsReturned /\ ns.calls # <<>> /\ env.engine = "audio"

\* C30: when the speed change or the resampling raises, the request still
\* succeeds; the artifact holds the waveform as it was before the failed
\* step, and the reported sample rate is the rate it was encoded at: the
\* engine's native rate when the resampling failed.
C30_FailedPostProcessingDegrades ==
    (Processed /\ (~env.speed_ok \/ ~env.resample_ok)) =>
        LET n1 == IF env.speed_ok THEN SpeedLength(env.len, ns.tts.speed) ELSE env.len
            n2 == IF env.resample_ok /\ env.sample_rate # ns.tts.sample_rate
                  THEN ResampleLength(n1, env.sample_rate, ns.tts.sample_rate) ELSE n1
        IN  /\ ns.result.success
            /\ ns.result.file_size = EncodedSize(ns.tts.format, n2)
            /\ ns.result.duration.num = n2
            /\ ns.result.duration.den = ns.result.sample_rate
            /\ ~env.resample_ok => ns.result.sample_rate = env.sample_rate

C30_Witness ==
    /\ Processed
    /\ ~env.resample_ok /\ ~env.speed_ok
    /\ ns.tts.speed = 20
    /\ ns.tts.sample_rate = 16000
    /\ ns.result.success
    /\ ns.result.sample_rate = 24000
    /\ ns.result.duration.num = 3000

\* The types of the items written for request n, in order.
RECURSIVE Types(_, _)
Types(out, n) ==
    IF out = <<>> THEN <<>>
    ELSE IF Head(out).n = n THEN <<Head(out).type>> \o Types(Tail(out), n)
    ELSE Types(Tail(out), n)

\* A finished exchange: one status, then chunks only, then one terminal item.
Lifecycle(types, terminal) ==
    /\ Len(types) >= 2
    /\ types[1] = "status"
    /\ \A i \in 2..(Len(types) - 1) : types[i] = "audio_chunk"
    /\ types[Len(types)] = terminal

\* An exchange that is still running or was cut off by the client.
LifecyclePrefix(types) ==
    \/ types = <<>>
    \/ /\ types[1] = "status"
       /\ \A i \in 2..Len(types) : types[i] = "audio_chunk"

\* The WebSocket handler is done with message n.
Handled(n) ==
    /\ tr.endpoint = "ws"
    /\ n \in 1..Len(tr.msgs)
    /\ n < Len(tr.msgs) \/ tr.pc = "receiving" \/ tr.closed_by = "server"

\* C22: on the WebSocket, the envelopes for a request message with text are
\* one status, then audio_chunk envelopes, then one terminal envelope: end
\* if the synthesis completed, error if it failed.
C22_WebSocketRequestLifecycle ==
    \A n \in 1..MaxMessages :
        (Handled(n) /\ tr.msgs[n].has_text) =>
            /\ tr.outcome[n] \in {"completed", "failed"}
            /\ Lifecycle(Types(tr.out, n),
                         IF tr.outcome[n] = "completed" THEN "end" ELSE "error")

\* The step reads a message that has no text field.
ReadsWithoutText ==
    /\ tr.endpoint = "ws"
    /\ Len(tr'.msgs) = Len(tr.msgs) + 1
    /\ tr'.msgs[Len(tr'.msgs)].json
    /\ ~tr'.msgs[Len(tr'.msgs)].has_text

\* The step writes the end envelope or the error envelope of a synthesis.
EndsRequest ==
    /\ tr.endpoint = "ws"
    /\ tr.pc \in {"status_sent", "yielding"}
    /\ Len(tr'.out) = Len(tr.out) + 1
    /\ tr'.out[Len(tr'.out)].type \in {"end", "error"}

\* C23: a WebSocket message without text is answered with exactly one
\* error envelope, nothing is synthesised, and the handler is back at
\* reading the next message with the connection open; it is back there
\* too after an end envelope and after a synthesis error envelope.
C23_MissingTextKeepsConnection ==
    [][/\ ReadsWithoutText =>
            /\ tr'.out = Append(tr.out, Item(Len(tr'.msgs), "error", 0))
            /\ tr'.pc = "receiving"
            /\ tr'.closed_by = "-"
            /\ tr'.outcome[Len(tr'.msgs)] = "-"
            /\ UNCHANGED <<fs, ntemp, nid, spk2info>>
       /\ EndsRequest =>
            /\ tr'.pc = "receiving"
            /\ tr'.closed_by = "-"]_vars

\* A message without text was answered and the next message on the same
\* connection was synthesised to its end.
C23_Witness ==
    /\ tr.endpoint = "ws"
    /\ tr.pc = "receiving"
    /\ Len(tr.msgs) = 2
    /\ ~tr.msgs[1].has_text
    /\ tr.msgs[2].has_text
    /\ Types(tr.out, 1) = <<"error">>
    /\ Lifecycle(Types(tr.out, 2), "end")

\* C24: a Server-Sent-Events response is one processing event, then one
\* event per audio chunk, then one final event: completed if the synthesis
\* finished, error if it failed; nothing follows the final event.
C24_EventStreamLifecycle ==
    tr.endpoint = "sse" =>
        /\ tr.pc = "done" =>
            /\ tr.outcome[1] \in {"completed", "failed"}
            /\ Lifecycle(Types(tr.out, 1),
                         IF tr.outcome[1] = "completed" THEN "completed" ELSE "error")
            /\ tr.outcome[1] = "completed" =>
                    Len(tr.out) = Len(Chunks(tr.buffer)) + 2
        /\ tr.pc # "done" => LifecyclePrefix(Types(tr.out, 1))

C24_Witness ==
    /\ tr.endpoint = "sse"
    /\ tr.pc = "done"
    /\ tr.outcome = <<"completed">>
    /\ Len(Chunks(tr.buffer)) > 1
    /\ Types(tr.out, 1)[Len(tr.out)] = "completed"

\* The chunk sizes written so far.
Written == [i \in 1..Len(tr.out) |-> tr.out[i].data]

\* C25: on a chunked-body response a synthesis failure ends the body with
\* no exception leaving the body generator, and what was written before it
\* is exactly the chunks produced so far.
C25_BodyEndsQuietlyOnFailure ==
    (tr.endpoint \in BodyEndpoints /\ tr.outcome = <<"failed">>) =>
        /\ ~tr.escaped
        /\ tr.pc = "done"
        /\ Written = SubSeq(Chunks(tr.buffer), 1, tr.sent)

\* The sample count a successful request with this payload has at speed
\* 1.0: the engine's output, resampled when the rates differ.
SamplesAtUnitSpeed ==
    IF env.sample_rate # ns.tts.sample_rate
    THEN ResampleLength(env.len, env.sample_rate, ns.tts.sample_rate)
    ELSE env.len

\* C31: in every mode a successful request at speed 1.0 has the unit-speed
\* sample count, and at speed 2.0 a count within one sample of half of it.
C31_DoubleSpeedHalvesSamples ==
    (NsReturned /\ ns.result.success /\ env.speed_ok /\ env.resample_ok) =>
        /\ ns.tts.speed = 10 => ns.result.duration.num = SamplesAtUnitSpeed
        /\ ns.tts.speed = 20 =>
            /\ 2 * ns.result.duration.num - SamplesAtUnitSpeed <= 2
            /\ SamplesAtUnitSpeed - 2 * ns.result.duration.num <= 2

\* C32: a successful request that names no output sample rate is encoded
\* at the engine's native rate; one that names a rate is encoded at that
\* rate.
C32_NoTargetRateKeepsNativeRate ==
    (NsReturned /\ ns.result.success /\ env.resample_ok) =>
        /\ req.sample_rate = 0 => ns.result.sample_rate = env.sample_rate
        /\ req.sample_rate # 0 => ns.result.sample_rate = req.sample_rate

\* C33: the chunks yielded for one streaming request are in-order slices
\* of the encoded buffer: none is empty, each but the last is 8192 bytes,
\* the last is at most 8192 bytes, together they are the whole buffer; and
\* none is yielded before the engine returned and its output was encoded.
C33_ChunksPartitionEncodedBuffer ==
    /\ \A i \in 1..Len(st.sent) :
        /\ st.sent[i] > 0
        /\ st.sent[i] <= 8192
        /\ (i - 1) * 8192 + st.sent[i] <= st.buffer
        /\ (i - 1) * 8192 + st.sent[i] < st.buffer => st.sent[i] = 8192
    /\ st.pc = "done" => SumSeq(st.sent) = st.buffer
    /\ st.sent # <<>> =>
        /\ st.calls # <<>>
        /\ env.engine = "audio"
        /\ st.buffer = EncodedSize("wav", env.len)

C33_Witness ==
    /\ st.pc = "done"
    /\ Len(st.sent) = 3
    /\ st.sent[3] < 8192

\* C34: load_wav fails on every reference sampled below 16000 Hz and
\* hands back no waveform; a reference at exactly 16000 Hz comes back with
\* its own frames and no resampling; a reference above 16000 Hz comes back
\* resampled to exactly 16000 Hz.
C34_LoadWavNeverUpsamples ==
    (lw.pc = "done" /\ lw.wav.decodes) =>
        /\ lw.wav.sample_rate < 16000 => lw.speech = NoSpeech
        /\ lw.wav.sample_rate = 16000 =>
            lw.speech = Speech(FALSE, 16000, lw.wav.frames, FALSE)
        /\ lw.wav.sample_rate > 16000 =>
            /\ ~lw.speech.raised
            /\ lw.speech.resampled
            /\ lw.speech.sample_rate = 16000
            /\ lw.speech.frames * lw.wav.sample_rate >= lw.wav.frames * 16000
            /\ (lw.speech.frames - 1) * lw.wav.sample_rate < lw.wav.frames * 16000

C34_Witness ==
    /\ lw.pc = "done"
    /\ lw.wav = Wav(TRUE, 15999, 16000)
    /\ lw.speech.raised

\* The call names neither an uploaded file nor an audio URL.
NoReference == http.upload = NoAudio /\ ~AudioTruthy(http.prompt_audio_url)

\* C36: a zero-shot, cross-lingual or custom-speaker request without an
\* uploaded file and without an audio URL is answered 400, and neither a
\* synthesis nor a registration is attempted.
C36_NoReferenceIsBadRequest ==
    (http.pc = "done" /\ NoReference) =>
        /\ http.status = 400
        /\ ~http.attempted
        /\ reg.custom_speakers = {}
        /\ nid = 0

\* C35: every record of the registry refers to a reference-audio file that
\* exists on disk, whatever registrations and deletions came before.
C35_RegisteredReferenceExists ==
    \A r \in reg.custom_speakers : r.prompt_audio_path \in DOMAIN fs

\* The mode or the format value of message m is no member of its enumeration.
UnknownValue(m) == SynthesisMode(m.mode) = ValueError \/ AudioFormat(m.format) = ValueError

\* The handler answered message n with one error envelope and returned.
RefusedAndStopped(n) ==
    /\ Types(tr.out, n) = <<"error">>
    /\ n = Len(tr.msgs)
    /\ tr.pc = "closed"
    /\ tr.closed_by = "server"

\* C37 as stated: a WebSocket message that is no valid JSON, or whose mode
\* or format value is unknown, gets one error envelope and nothing else,
\* and the handler reads no further message.
C37_UnknownValueStopsHandler ==
    \A n \in 1..MaxMessages :
        (tr.endpoint = "ws" /\ n \in 1..Len(tr.msgs)
            /\ (~tr.msgs[n].json \/ UnknownValue(tr.msgs[n]))) =>
            RefusedAndStopped(n)

\* C37 amended: the same for a message that is no valid JSON, or that has
\* a text field and an unknown mode or format value.
C37_UnknownValueWithTextStopsHandler ==
    \A n \in 1..MaxMessages :
        (tr.endpoint = "ws" /\ n \in 1..Len(tr.msgs)
            /\ (~tr.msgs[n].json \/ (tr.msgs[n].has_text /\ UnknownValue(tr.msgs[n])))) =>
            RefusedAndStopped(n)

\* A message with text and an unknown format was refused after an earlier
\* request on the same connection had been answered.
C37_Witness ==
    /\ tr.endpoint = "ws"
    /\ Len(tr.msgs) = 2
    /\ tr.msgs[2].has_text
    /\ tr.msgs[2].format = "ogg"
    /\ tr.msgs[2].mode = "basic"
    /\ RefusedAndStopped(2)
    /\ Len(tr.out) > 1

\* The mode names the ultimate endpoints recognise.
RecognisedModes == {"auto", "sft", "zero_shot", "cross_lingual", "instruct",
                    "instruct2", "voice_conversion"}

\* C38: an ultimate request whose mode string is none of the recognised
\* names is not rejected: on both delivery paths the request handed to the
\* service is a Basic one, a non-streaming answer comes from the Basic
\* branch, and a successful one reports Basic.
C38_UnknownModeIsBasic ==
    req.mode \notin RecognisedModes =>
        /\ Dispatched("BASIC")
        /\ NsReturned =>
            /\ ns.result.request_id # NoId
            /\ \A i \in 1..Len(ns.calls) : ns.calls[i].op = "inference_zero_shot"
            /\ ns.result.success => ns.result.mode_used = "BASIC"

C38_Witness ==
    /\ req.mode = "bogus"
    /\ AudioTruthy(req.upload)
    /\ NsReturned
    /\ StHanded
    /\ ns.result.success
    /\ ns.result.mode_used = "BASIC"

====
